---- MODULE Spec2Model ----
(***************************************************************************)
(* Model of the burp-insights project-file reader: the file window        *)
(* (internal/binary Reader), the HTTP record locator and the scanner      *)
(* issue scans of the Parser, and the Reader facade with its caches, its  *)
(* reader-writer lock and the streaming history producer.                 *)
(***************************************************************************)
EXTENDS Integers, Sequences, FiniteSets, TLC

VARIABLES
    file,        \* the project file on disk: [head, fill, body]
    env,         \* outcome of the operating system calls of NewReader
    handle,      \* the os.File of the binary.Reader: "none", "open", "closed"
    reader,      \* TRUE when Open returned a *Reader to the caller
    openErr,     \* the error Open returned ("none" before / on success)
    cache,       \* Reader.cache: [httpHistory, locations, loaded]
    recordCount, \* Reader.metadata.RecordCount
    mu,          \* Reader.mu: [w |-> exclusive holder or "none", r |-> shared holders]
    pc,          \* per caller: the facade method whose critical section it is in
    hitCache,    \* per caller: the cache was already populated when it took the lock
    counts,      \* values returned so far by HTTPHistoryCount
    histories,   \* ID sequences of the slices returned so far by HTTPHistory
    spc,         \* position of the StreamHTTPHistory goroutine
    slocs,       \* its local variable locations
    si,          \* index of the next location of its range loop
    sentry,      \* the entry it parsed and is about to send
    ctxDone,     \* the context passed to StreamHTTPHistory is cancelled
    ctxAtStart,  \* the context was already cancelled when the stream was started
    entryChan,   \* buffered entries not yet received
    errChan,     \* buffered errors not yet received
    chanClosed,  \* both channels are closed (the two deferred closes)
    sent,        \* IDs sent on entryChan by this stream, in order
    errsSent,    \* values sent on errChan by this stream, in order
    observed,    \* the producer took a <-ctx.Done() branch
    issueOut     \* result of the last scan of the Parser: [kind, filter, metas]

vars == <<file, env, handle, reader, openErr, cache, recordCount, mu, pc,
          hitCache, counts, histories, spc, slocs, si, sentry, ctxDone,
          ctxAtStart, entryChan, errChan, chanClosed, sent, errsSent,
          observed, issueOut>>

(***************************************************************************)
(* Bounds of the model.                                                    *)
(***************************************************************************)
MaxChunks == 2        \* chunks after the header of an HTTP project file
MaxIssueChunks == 3   \* chunks after the header of an issue project file
ScanBufSize == 64     \* stands for the 1 MiB scan window of ScanHTTPRecords
IssueBufSize == 200   \* stands for the 1 MiB scan window of the issue scans
IssueOverlap == 80    \* stands for the 1024-byte overlap of the issue scans
ChanCap == 1          \* stands for the 100-entry buffer of entryChan
MaxRepChunks == 3     \* chunks after the header of a repeater project file
RepBufSize == 560     \* stands for the 1 MiB scan window of ScanRepeaterTabNames
MaxTasks == 2         \* tasks in the root list of a UI task file
MaxResultsBound == 1  \* largest MaxResults of the search options (0 is no limit)
MaxHeaderKeys == 2    \* header keys of one message of the search files
MaxNodes == 8         \* records in the pointer graph of an evidence file
MaxAvailHigh == 1     \* the largest file of the string records holds MaxAvailHigh * 2^32 bytes
MaxScanPad == 50
MaxListCount == 3
MaxChars == 2
MaxEvidenceCount == 2
FindBufSize == 4       \* stands for the 64 KiB buffer of FindPattern
MaxFindBody == 4
MaxPipelineEntries == 3
MaxStatusParts == 3   \* parts of a status specification
MaxSearchEntries == 2 \* entries sent on the input channel of SearchStream
MaxMatches == 3       \* the length of the matches slice is kept up to MaxMatches

(***************************************************************************)
(* Program constants.                                                      *)
(***************************************************************************)
MagicHi == 26245              \* 0x6685, the upper half of MagicBytes
MagicLo == 33408              \* 0x8280, the lower half of MagicBytes
HeaderSize == 256
ScanOverlap == 20
MaxReadSize == 131072         \* 128 * 1024
MinRecordData == 10
MinTokenPos == 8
FallbackReqEnd == 1024
MaxReqContentLength == 100000
MaxRespContentLength == 500000
MaxBody == 50000
issueEntryPtrOffset == 47     \* 0x2f
minEntryRecordLen == 55       \* issueEntryPtrOffset + 8
serialOffset == 58            \* 0x3a
sevOffset == 106              \* 0x6a
confOffset == 107             \* 0x6b
minIssueRecordLen == 152      \* 0x98
stringChars == 32
stringOffset == 8
markerOffset == 184           \* 0xb8
minRequiredLength == 200      \* markerOffset + 16
repeaterOverlap == 512

(***************************************************************************)
(* Bytes and byte strings (ASCII codes).                                   *)
(***************************************************************************)
NUL == 0
LF == 10

Min(a, b) == IF a < b THEN a ELSE b

SetMin(S) == CHOOSE x \in S : \A y \in S : x <= y
SetMax(S) == CHOOSE x \in S : \A y \in S : x >= y

CRLFCRLF == <<13, 10, 13, 10>>
LFLF == <<10, 10>>

\* "GET ", "POST ", "PUT ", "DELETE ", "PATCH ", "HEAD ", "OPTIONS "
httpMethodPatterns ==
    << <<71, 69, 84, 32>>,
       <<80, 79, 83, 84, 32>>,
       <<80, 85, 84, 32>>,
       <<68, 69, 76, 69, 84, 69, 32>>,
       <<80, 65, 84, 67, 72, 32>>,
       <<72, 69, 65, 68, 32>>,
       <<79, 80, 84, 73, 79, 78, 83, 32>> >>

\* "HTTP/1."
httpResponsePattern == <<72, 84, 84, 80, 47, 49, 46>>

\* "content-length:"
contentLengthPrefix ==
    <<99, 111, 110, 116, 101, 110, 116, 45, 108, 101, 110, 103, 116, 104, 58>>

(***************************************************************************)
(* The file.  head holds the first bytes, fill is a run of                 *)
(* NUL bytes after them, body is everything after the fill.               *)
(***************************************************************************)
Size(f) == Len(f.head) + f.fill + Len(f.body)

ByteAt(f, o) ==
    IF o < Len(f.head) THEN f.head[o + 1]
    ELSE IF o < Len(f.head) + f.fill THEN NUL
    ELSE f.body[o - Len(f.head) - f.fill + 1]

\* binary.Reader.ReadAt: the bytes [start, start + n) of the file, or an error.
\* A slice is kept as its absolute start and its length.
ReadAt(f, h, offset, length) ==
    IF offset < 0 \/ offset >= Size(f) THEN [err |-> "ErrInvalidOffset", start |-> 0, n |-> 0]
    ELSE IF h # "open" THEN [err |-> "ErrClosed", start |-> 0, n |-> 0]
    ELSE [err |-> "none", start |-> offset, n |-> Min(length, Size(f) - offset)]

\* ReadUint32At reading the four bytes in little-endian order
ReadUint32AtLittleEndian(f, h, offset) ==
    LET buf == ReadAt(f, h, offset, 4) IN
    IF buf.err # "none" THEN [err |-> buf.err, v |-> [hi |-> 0, lo |-> 0]]
    ELSE IF buf.n < 4 THEN [err |-> "ErrReadFailed", v |-> [hi |-> 0, lo |-> 0]]
    ELSE [err |-> "none",
          v |-> [hi |-> ByteAt(f, offset + 3) * 256 + ByteAt(f, offset + 2),
                 lo |-> ByteAt(f, offset + 1) * 256 + ByteAt(f, offset)]]

\* binary.Reader.ReadUint32At: big-endian.  The 32-bit value is kept as its
\* two 16-bit halves.
ReadUint32At(f, h, offset) ==
    LET buf == ReadAt(f, h, offset, 4) IN
    IF buf.err # "none" THEN [err |-> buf.err, v |-> [hi |-> 0, lo |-> 0]]
    ELSE IF buf.n < 4 THEN [err |-> "ErrReadFailed", v |-> [hi |-> 0, lo |-> 0]]
    ELSE [err |-> "none",
          v |-> [hi |-> ByteAt(f, offset) * 256 + ByteAt(f, offset + 1),
                 lo |-> ByteAt(f, offset + 2) * 256 + ByteAt(f, offset + 3)]]

\* pattern occurs at index i of the slice (s, n)
MatchAt(f, s, n, i, pat) ==
    /\ i >= 0
    /\ i + Len(pat) <= n
    /\ \A k \in 1..Len(pat) : ByteAt(f, s + i + k - 1) = pat[k]

\* bytes.Index(data[from:], pat) + from, or -1
IndexFrom(f, s, n, from, pat) ==
    LET hits == {i \in from..(n - Len(pat)) : MatchAt(f, s, n, i, pat)} IN
    IF hits = {} THEN -1 ELSE SetMin(hits)

(***************************************************************************)
(* HTTP record locator (Parser.ScanHTTPRecords and its helpers).           *)
(***************************************************************************)
IsSpace(b) == b \in {9, 10, 11, 12, 13, 32}

IsDigit(b) == b >= 48 /\ b <= 57

ToLower(b) == IF b >= 65 /\ b <= 90 THEN b + 32 ELSE b

\* A Go int (64 bits, two's complement) is kept as its four 16-bit limbs,
\* least significant first.
Zero64 == <<0, 0, 0, 0>>

Limb == 65536

\* n*10 + d in 64-bit arithmetic: the carry out of the top limb is dropped
Mul10Add(x, d) ==
    LET c1 == x[1] * 10 + d
        c2 == x[2] * 10 + (c1 \div Limb)
        c3 == x[3] * 10 + (c2 \div Limb)
        c4 == x[4] * 10 + (c3 \div Limb)
    IN <<c1 % Limb, c2 % Limb, c3 % Limb, c4 % Limb>>

IsNegative(x) == x[4] >= Limb \div 2

\* the int as a number of the model when it lies in 0 .. 2^31 - 1; every
\* other value is given as -1 (the callers compare it with 0 and with
\* bounds below 2^31 only)
IntOf(x) ==
    IF x[4] = 0 /\ x[3] = 0 /\ x[2] < Limb \div 2 THEN x[2] * Limb + x[1] ELSE -1

\* parseIntFromString: the leading decimal digits of the bytes [p, e),
\* accumulated as n = n*10 + digit
RECURSIVE parseIntFromString(_, _, _, _)
parseIntFromString(f, p, e, acc) ==
    IF p < e /\ IsDigit(ByteAt(f, p))
    THEN parseIntFromString(f, p + 1, e, Mul10Add(acc, ByteAt(f, p) - 48))
    ELSE acc

\* strings.TrimSpace on the bytes [a, b): the trimmed bounds
TrimLeft(f, a, b) ==
    LET keep == {i \in a..(b - 1) : ~IsSpace(ByteAt(f, i))} IN
    IF keep = {} THEN b ELSE SetMin(keep)

TrimRight(f, a, b) ==
    LET keep == {i \in a..(b - 1) : ~IsSpace(ByteAt(f, i))} IN
    IF keep = {} THEN a ELSE CHOOSE x \in keep : \A y \in keep : y <= x

\* extractContentLength on the header bytes [s, e): the lines are the pieces
\* between "\n"; the first line that starts with "content-length:" (any
\* case, after trimming) decides.
RECURSIVE extractContentLength(_, _, _)
extractContentLength(f, s, e) ==
    LET nls == {i \in s..(e - 1) : ByteAt(f, i) = LF}
        le == IF nls = {} THEN e ELSE SetMin(nls)
        a == TrimLeft(f, s, le)
        b == IF a = le THEN le ELSE TrimRight(f, a, le) + 1
        isCL == /\ b - a >= Len(contentLengthPrefix)
                /\ \A k \in 1..Len(contentLengthPrefix) :
                       ToLower(ByteAt(f, a + k - 1)) = contentLengthPrefix[k]
        v == TrimLeft(f, a + Len(contentLengthPrefix), b)
    IN IF isCL THEN IntOf(parseIntFromString(f, v, b, Zero64))
       ELSE IF le >= e THEN 0
       ELSE extractContentLength(f, le + 1, e)

\* findHTTPRequestEnd once the header end and the Content-Length are known
requestBodyEnd(headerEnd, contentLength, n) ==
    IF contentLength > 0 /\ contentLength < MaxReqContentLength /\ headerEnd + contentLength <= n
    THEN headerEnd + contentLength
    ELSE headerEnd

findHTTPRequestEnd(f, s, n) ==
    LET idx == IndexFrom(f, s, n, 0, CRLFCRLF)
        idx2 == IndexFrom(f, s, n, 0, LFLF)
    IN IF idx = -1
       THEN (IF idx2 # -1 THEN idx2 + 2 ELSE -1)
       ELSE requestBodyEnd(idx + 4, extractContentLength(f, s, s + idx), n)

\* the smallest positive position of a method token or of "HTTP/1." in the
\* bytes after the response headers, -1 when there is none
NextHTTP(f, s, n) ==
    LET cands == {IndexFrom(f, s, n, 0, httpMethodPatterns[k]) : k \in 1..Len(httpMethodPatterns)}
                 \cup {IndexFrom(f, s, n, 0, httpResponsePattern)}
        pos == {p \in cands : p > 0}
    IN IF pos = {} THEN -1 ELSE SetMin(pos)

\* findHTTPResponseEnd once the header end, the Content-Length and the
\* position of the next HTTP token after the headers are known
responseBodyEnd(headerEnd, contentLength, nextHTTP, n) ==
    IF contentLength > 0 /\ contentLength < MaxRespContentLength
    THEN (IF headerEnd + contentLength <= n THEN headerEnd + contentLength ELSE n)
    ELSE IF nextHTTP > 0 THEN headerEnd + nextHTTP
    ELSE IF n - headerEnd < MaxBody THEN n
    ELSE headerEnd + MaxBody

findHTTPResponseEnd(f, s, n) ==
    LET idx == IndexFrom(f, s, n, 0, CRLFCRLF)
        idx2 == IndexFrom(f, s, n, 0, LFLF)
    IN IF idx = -1
       THEN (IF idx2 # -1 THEN idx2 + 2 ELSE -1)
       ELSE responseBodyEnd(idx + 4, extractContentLength(f, s, s + idx),
                            NextHTTP(f, s + idx + 4, n - idx - 4), n)

\* parseRecordAtOffset, the request end: the value of findHTTPRequestEnd, or
\* the fallback when it lies outside the data
requestEndOrFallback(reqEnd, headerEnd, n) ==
    IF reqEnd <= 0 \/ reqEnd > n
    THEN (IF headerEnd > 0 THEN headerEnd + 4 ELSE Min(FallbackReqEnd, n))
    ELSE reqEnd

\* parseRecordAtOffset, the response found at respOffset
withResponse(loc, respOffset, respEnd) ==
    [loc EXCEPT !.ResponseOffset = respOffset,
                !.ResponseLength = IF respEnd > 0 THEN respEnd ELSE 0]

\* parseRecordAtOffset after the request end: searchStart is reqEnd, and
\* respAt is searchStart + respIdx (-1 when "HTTP/1." does not follow)
locateResponse(f, offset, s, n, reqEnd) ==
    LET loc == [RequestOffset |-> offset, RequestLength |-> reqEnd,
                ResponseOffset |-> 0, ResponseLength |-> 0]
        respAt == IndexFrom(f, s, n, reqEnd, httpResponsePattern)
    IN IF reqEnd > n - MinRecordData THEN loc
       ELSE IF respAt >= 0
            THEN withResponse(loc, offset + respAt, findHTTPResponseEnd(f, s + respAt, n - respAt))
            ELSE loc

parseRecordAtOffset(f, h, offset) ==
    LET data == ReadAt(f, h, offset, MaxReadSize) IN
    IF data.err # "none" \/ data.n < MinRecordData
    THEN [RequestOffset |-> offset, RequestLength |-> 0,
          ResponseOffset |-> 0, ResponseLength |-> 0]
    ELSE locateResponse(f, offset, data.start, data.n,
             requestEndOrFallback(findHTTPRequestEnd(f, data.start, data.n),
                                  IndexFrom(f, data.start, data.n, 0, CRLFCRLF),
                                  data.n))

\* the test of ScanHTTPRecords on a hit at position actualPos of the window
AcceptHit(f, offset, actualPos) ==
    \/ /\ actualPos > 0
       /\ ByteAt(f, offset + actualPos - 1) # LF
       /\ ByteAt(f, offset + actualPos - 1) # NUL
       /\ actualPos >= MinTokenPos
    \/ actualPos = 0

\* the inner loop of ScanHTTPRecords for one pattern in one window
RECURSIVE ScanPattern(_, _, _, _, _, _)
ScanPattern(f, offset, n, pattern, idx, acc) ==
    LET actualPos == IndexFrom(f, offset, n, idx, pattern)
        acc2 == IF AcceptHit(f, offset, actualPos) THEN Append(acc, offset + actualPos) ELSE acc
        idx2 == actualPos + Len(pattern)
    IN IF actualPos = -1 THEN acc
       ELSE IF idx2 >= n THEN acc2
       ELSE ScanPattern(f, offset, n, pattern, idx2, acc2)

\* the loop over httpMethodPatterns for one window
RECURSIVE ScanWindow(_, _, _, _, _)
ScanWindow(f, offset, n, k, acc) ==
    IF k > Len(httpMethodPatterns) THEN acc
    ELSE ScanWindow(f, offset, n, k + 1, ScanPattern(f, offset, n, httpMethodPatterns[k], 0, acc))

\* the loop over the windows
RECURSIVE ScanWindows(_, _, _, _)
ScanWindows(f, h, offset, acc) ==
    LET fileSize == Size(f)
        remaining == fileSize - offset
        readSize == IF remaining < ScanBufSize THEN remaining ELSE ScanBufSize
        data == ReadAt(f, h, offset, readSize)
        next == IF data.n > ScanOverlap THEN offset + data.n - ScanOverlap ELSE offset + data.n
    IN IF offset >= fileSize THEN acc
       ELSE IF data.err # "none" \/ data.n = 0 THEN acc
       ELSE ScanWindows(f, h, next, ScanWindow(f, offset, data.n, 1, acc))

RECURSIVE deduplicateOffsets(_)
deduplicateOffsets(offsets) ==
    IF offsets = <<>> THEN offsets
    ELSE LET n == Len(offsets)
             front == deduplicateOffsets(SubSeq(offsets, 1, n - 1))
         IN IF \E i \in 1..(n - 1) : offsets[i] = offsets[n] THEN front
            ELSE Append(front, offsets[n])

\* a location is kept when its request is not empty
keepLocated(loc, rest) == IF loc.RequestLength > 0 THEN <<loc>> \o rest ELSE rest

\* the loop over the deduplicated offsets
RECURSIVE LocateAll(_, _, _)
LocateAll(f, h, offsets) ==
    IF offsets = <<>> THEN <<>>
    ELSE keepLocated(parseRecordAtOffset(f, h, Head(offsets)), LocateAll(f, h, Tail(offsets)))

ScanHTTPRecords(f, h) ==
    LocateAll(f, h, deduplicateOffsets(ScanWindows(f, h, HeaderSize, <<>>)))

\* parseHTTPMessage: the end of the header section of the message (s, n),
\* relative to s
headerSectionEnd(f, s, n) ==
    LET i == IndexFrom(f, s, n, 0, CRLFCRLF)
        j == IndexFrom(f, s, n, 0, LFLF)
    IN IF i # -1 THEN i ELSE IF j # -1 THEN j ELSE n

\* parseHTTPMessage: the trimmed first line of the bytes [s, e), as the
\* absolute bounds [a, b)
trimmedFirstLine(f, s, e) ==
    LET nls == {i \in s..(e - 1) : ByteAt(f, i) = LF}
        le == IF nls = {} THEN e ELSE SetMin(nls)
        a == TrimLeft(f, s, le)
    IN [a |-> a, b |-> IF a = le THEN le ELSE TrimRight(f, a, le) + 1]

StartLine(f, s, n) == trimmedFirstLine(f, s, s + headerSectionEnd(f, s, n))

\* the start of the second whitespace-separated field of the bytes [a, b),
\* which begin and end with a non-space byte; b when there is one field only
secondField(f, a, b) ==
    LET ws == {i \in a..(b - 1) : IsSpace(ByteAt(f, i))}
    IN IF ws = {} THEN b
       ELSE SetMin({i \in a..(b - 1) : i > SetMin(ws) /\ ~IsSpace(ByteAt(f, i))})

\* the value parseStatusLine leaves in StatusCode for the line [a, b)
statusCodeOf(f, a, b) ==
    IF a >= b \/ secondField(f, a, b) >= b THEN 0
    ELSE IntOf(parseIntFromString(f, secondField(f, a, b), b, Zero64))

\* parseStatusLine on the start line of the response (s, n)
parseStatusLine(f, s, n) ==
    statusCodeOf(f, StartLine(f, s, n).a, StartLine(f, s, n).b)

\* the bytes [a, b) of the file as a string
Bytes(f, a, b) == [i \in 1..(b - a) |-> ByteAt(f, a + i - 1)]

\* strings.Index(x, c) for one byte c on the bytes [a, b): absolute, or -1
FirstByte(f, a, b, c) ==
    LET hits == {i \in a..(b - 1) : ByteAt(f, i) = c}
    IN IF hits = {} THEN -1 ELSE SetMin(hits)

\* strings.TrimSpace on the bytes [a, b), as bounds
Trim(f, a, b) ==
    LET l == TrimLeft(f, a, b)
    IN [a |-> l, b |-> IF l = b THEN b ELSE TrimRight(f, l, b) + 1]

\* the end of the whitespace-separated field that starts at p
fieldEnd(f, p, b) == SetMin({i \in p..(b - 1) : IsSpace(ByteAt(f, i))} \cup {b})

\* parseRequestLine on the line [a, b): parts[1] split at the first "?"
parseRequestLine(f, a, b) ==
    LET p1 == secondField(f, a, b)
        e1 == fieldEnd(f, p1, b)
        q == FirstByte(f, p1, e1, 63)
    IN IF a >= b \/ p1 >= b THEN [Path |-> <<>>, QueryString |-> <<>>]
       ELSE IF q >= 0 THEN [Path |-> Bytes(f, p1, q), QueryString |-> Bytes(f, q + 1, e1)]
       ELSE [Path |-> Bytes(f, p1, e1), QueryString |-> <<>>]

\* strings.EqualFold(key, "Host") for the key [a, b)
IsHostKey(f, a, b) ==
    /\ b - a = 4
    /\ <<ToLower(ByteAt(f, a)), ToLower(ByteAt(f, a + 1)),
         ToLower(ByteAt(f, a + 2)), ToLower(ByteAt(f, a + 3))>> = <<104, 111, 115, 116>>

\* parseHTTPMessage on one header line [a, b) (trimmed): the key and the
\* value around the first ":", which must not be the first byte
headerLine(f, a, b, colon) ==
    IF a >= b \/ colon <= a
    THEN [ok |-> FALSE, key |-> [a |-> a, b |-> a], value |-> [a |-> a, b |-> a]]
    ELSE [ok |-> TRUE, key |-> Trim(f, a, colon), value |-> Trim(f, colon + 1, b)]

\* the header line that starts at p, in the header section that ends at e:
\* the lines are the pieces between "\n", each one trimmed
trimmedHeaderLine(f, t) == headerLine(f, t.a, t.b, FirstByte(f, t.a, t.b, 58))

lineEnd(nl, e) == IF nl = -1 THEN e ELSE nl

headerLineAt(f, p, e) == trimmedHeaderLine(f, Trim(f, p, lineEnd(FirstByte(f, p, e, LF), e)))

isHostLine(f, line) == line.ok /\ IsHostKey(f, line.key.a, line.key.b)

\* the starts of the header lines of [s, e) whose key is "Host" in any case;
\* the first line of the section is the start line
hostLines(f, s, e) ==
    {p \in {i + 1 : i \in {j \in s..(e - 1) : ByteAt(f, j) = LF}} :
        isHostLine(f, headerLineAt(f, p, e))}

Port80 == <<80, 0, 0, 0>>
Port443 == <<443, 0, 0, 0>>

\* extractHostFromHeaders given the Host value [a, b): split at the first ":"
splitHostPort(f, a, b, colon) ==
    IF colon >= 0
    THEN [Host |-> Bytes(f, a, colon), Port |-> parseIntFromString(f, colon + 1, b, Zero64)]
    ELSE [Host |-> Bytes(f, a, b), Port |-> Port80]

splitHostValue(f, v) == splitHostPort(f, v.a, v.b, FirstByte(f, v.a, v.b, 58))

\* extractHostFromHeaders on the header section [s, e) of the request.  The
\* map of parseHTTPMessage is walked in no fixed order; a message of the
\* model holds at most one Host key, so the order does not matter, and the
\* first value of the key is the value of its first line.
hostOf(f, e, lines) ==
    IF lines = {} THEN [Host |-> <<>>, Port |-> Zero64]
    ELSE splitHostValue(f, headerLineAt(f, SetMin(lines), e).value)

extractHostFromHeaders(f, s, e) == hostOf(f, e, hostLines(f, s, e))

\* x divided by 10, x read as an unsigned number: quotient and remainder
DivMod10(x) ==
    LET c4 == x[4]
        c3 == (c4 % 10) * Limb + x[3]
        c2 == (c3 % 10) * Limb + x[2]
        c1 == (c2 % 10) * Limb + x[1]
    IN [q |-> <<c1 \div 10, c2 \div 10, c3 \div 10, c4 \div 10>>, r |-> c1 % 10]

RECURSIVE Digits(_)
Digits(x) == IF x = Zero64 THEN <<>> ELSE Append(Digits(DivMod10(x).q), 48 + DivMod10(x).r)

\* intToString: "0" for 0; the loop "for n > 0" leaves a negative n with no
\* digit at all
intToString(n) ==
    IF n = Zero64 THEN <<48>>
    ELSE IF IsNegative(n) THEN <<>>
    ELSE Digits(n)

\* buildURL: "http" or "https", "://", the host, ":port" unless the port is
\* 80 or 443, the path, and "?query" when the query string is not empty
buildURL(Host, Port, Path, QueryString) ==
    IF Host = <<>> THEN <<>>
    ELSE (IF Port = Port443 THEN <<104, 116, 116, 112, 115>> ELSE <<104, 116, 116, 112>>)
         \o <<58, 47, 47>> \o Host
         \o (IF Port = Port80 \/ Port = Port443 THEN <<>> ELSE <<58>> \o intToString(Port))
         \o Path
         \o (IF QueryString # <<>> THEN <<63>> \o QueryString ELSE <<>>)

\* the entry of ParseHTTPEntry before the response is looked at
requestEntry(id, reqLen, rl, hp) ==
    [ID |-> id, Request |-> reqLen, Response |-> -1, StatusCode |-> 0,
     Host |-> hp.Host, Port |-> hp.Port, Path |-> rl.Path, QueryString |-> rl.QueryString,
     URL |-> buildURL(hp.Host, hp.Port, rl.Path, rl.QueryString)]

\* the entry of a location without request bytes
emptyEntry(id) ==
    [ID |-> id, Request |-> -1, Response |-> -1, StatusCode |-> 0,
     Host |-> <<>>, Port |-> Zero64, Path |-> <<>>, QueryString |-> <<>>, URL |-> <<>>]

\* ParseHTTPEntry, the request part: parseHTTPMessage, parseRequestLine,
\* extractHostFromHeaders (and buildURL, which the response does not change)
parseRequestLineOf(f, line) == parseRequestLine(f, line.a, line.b)

parseRequest(f, id, s, n) ==
    requestEntry(id, n,
                 parseRequestLineOf(f, StartLine(f, s, n)),
                 extractHostFromHeaders(f, s, s + headerSectionEnd(f, s, n)))

\* ParseHTTPEntry, the response part: a failed read leaves the entry as it is
parseResponse(f, h, loc, entry) ==
    LET respData == ReadAt(f, h, loc.ResponseOffset, loc.ResponseLength)
    IN IF loc.ResponseLength > 0 /\ loc.ResponseOffset > 0 /\ respData.err = "none"
       THEN [entry EXCEPT !.Response = respData.n,
                          !.StatusCode = parseStatusLine(f, respData.start, respData.n)]
       ELSE entry

\* ParseHTTPEntry failing on a location that has no response
ParseHTTPEntryResponseRequired(f, h, loc) ==
    LET reqData == ReadAt(f, h, loc.RequestOffset, loc.RequestLength)
    IN IF loc.RequestLength > 0 /\ reqData.err # "none"
       THEN [err |-> reqData.err, entry |-> emptyEntry(loc.RequestOffset)]
       ELSE IF ~(loc.ResponseLength > 0 /\ loc.ResponseOffset > 0)
            THEN [err |-> "ErrParseError", entry |-> emptyEntry(loc.RequestOffset)]
       ELSE [err |-> "none",
             entry |-> parseResponse(f, h, loc,
                           IF loc.RequestLength > 0
                           THEN parseRequest(f, loc.RequestOffset, reqData.start, reqData.n)
                           ELSE emptyEntry(loc.RequestOffset))]

\* Parser.ParseHTTPEntry: the entry keeps the ID, the lengths of the raw
\* request and response (-1 when the message is absent), the status code,
\* and the host, port, path, query string and URL
ParseHTTPEntry(f, h, loc) ==
    LET reqData == ReadAt(f, h, loc.RequestOffset, loc.RequestLength)
    IN IF loc.RequestLength > 0 /\ reqData.err # "none"
       THEN [err |-> reqData.err, entry |-> emptyEntry(loc.RequestOffset)]
       ELSE [err |-> "none",
             entry |-> parseResponse(f, h, loc,
                           IF loc.RequestLength > 0
                           THEN parseRequest(f, loc.RequestOffset, reqData.start, reqData.n)
                           ELSE emptyEntry(loc.RequestOffset))]

(***************************************************************************)
(* Opening and closing (binary.NewReader, NewParser, OpenWithOptions).     *)
(***************************************************************************)
\* binary.Reader.Close / Parser.Close: closes the file
ReaderClose(h) == IF h = "open" THEN "closed" ELSE h

\* binary.NewReader: os.Open, then Stat; the file is closed when Stat fails
NewReader(e) ==
    IF e = "noent" THEN [err |-> "ErrNotExist", handle |-> "none"]
    ELSE IF e = "statfail" THEN [err |-> "ErrStat", handle |-> ReaderClose("open")]
    ELSE [err |-> "none", handle |-> "open"]

MagicBytes == [hi |-> MagicHi, lo |-> MagicLo]

validateHeader(f, h) ==
    LET magic == ReadUint32At(f, h, 0) IN
    IF magic.err # "none" THEN "ErrInvalidFile"
    ELSE IF magic.v # MagicBytes THEN "ErrInvalidMagic"
    ELSE "none"

\* NewParser returning the header error without closing the reader
NewParserNoClose(f, e) ==
    LET r == NewReader(e)
        v == validateHeader(f, r.handle)
    IN IF r.err # "none" THEN r
       ELSE IF v # "none" THEN [err |-> v, handle |-> r.handle]
       ELSE [err |-> "none", handle |-> r.handle]

NewParser(f, e) ==
    LET r == NewReader(e)
        v == validateHeader(f, r.handle)
    IN IF r.err # "none" THEN r
       ELSE IF v # "none" THEN [err |-> v, handle |-> ReaderClose(r.handle)]
       ELSE [err |-> "none", handle |-> r.handle]

(***************************************************************************)
(* The Reader facade.                                                      *)
(***************************************************************************)
Threads == {"t1", "t2"}

EmptyCache == [httpHistory |-> <<>>, locations |-> <<>>, loaded |-> FALSE]

\* the loop of HTTPHistory: entries whose parse fails are skipped
RECURSIVE ParseAll(_, _, _)
ParseAll(f, h, locations) ==
    IF locations = <<>> THEN <<>>
    ELSE LET r == ParseHTTPEntry(f, h, Head(locations))
             rest == ParseAll(f, h, Tail(locations))
         IN IF r.err # "none" THEN rest ELSE <<r.entry>> \o rest

\* the scan of HTTPHistory: every location is parsed and the cache is filled
loadHistory(f, h, locations) ==
    LET entries == ParseAll(f, h, locations)
    IN [cache |-> [httpHistory |-> entries, locations |-> locations, loaded |-> TRUE],
        ret |-> entries, fresh |-> TRUE]

\* body of Reader.HTTPHistory: the new cache and the slice returned
HTTPHistoryBody(f, h, c) ==
    IF c.loaded THEN [cache |-> c, ret |-> c.httpHistory, fresh |-> FALSE]
    ELSE loadHistory(f, h, ScanHTTPRecords(f, h))

\* the scan of HTTPHistoryCount: the locations are cached and counted
countLocations(c, locations) ==
    [cache |-> [c EXCEPT !.locations = locations], ret |-> Len(locations)]

\* body of Reader.HTTPHistoryCount: the new cache and the count returned
HTTPHistoryCountBody(f, h, c) ==
    IF c.loaded THEN [cache |-> c, ret |-> Len(c.httpHistory)]
    ELSE IF Len(c.locations) > 0 THEN [cache |-> c, ret |-> Len(c.locations)]
    ELSE countLocations(c, ScanHTTPRecords(f, h))

IDs(entries) == [i \in 1..Len(entries) |-> entries[i].ID]

StreamVars == <<spc, slocs, si, sentry, ctxDone, ctxAtStart, entryChan, errChan,
                chanClosed, sent, errsSent, observed>>
GhostVars == <<counts, histories>>

\* OpenWithOptions(path, opts)
Open(preload) ==
    /\ openErr = "notcalled"
    /\ \E parser \in {NewParser(file, env)} :
       \E hist \in {IF preload THEN HTTPHistoryBody(file, parser.handle, EmptyCache)
                     ELSE [cache |-> EmptyCache, ret |-> <<>>]} :
          IF parser.err # "none"
          THEN /\ openErr' = parser.err
               /\ handle' = parser.handle
               /\ UNCHANGED <<reader, cache, recordCount>>
          ELSE /\ openErr' = "none"
               /\ handle' = parser.handle
               /\ reader' = TRUE
               /\ cache' = IF preload THEN hist.cache ELSE EmptyCache
               /\ recordCount' = IF preload THEN Len(hist.ret) ELSE 0
    /\ UNCHANGED <<file, env, mu, pc, hitCache, issueOut>>
    /\ UNCHANGED StreamVars
    /\ UNCHANGED GhostVars

MuFree == mu.w = "none" /\ mu.r = {}

\* r.mu.Lock() at the head of HTTPHistory, HTTPHistoryCount and Close
Lock(t, op) ==
    /\ reader
    /\ pc[t] = "idle"
    /\ MuFree
    /\ mu' = [mu EXCEPT !.w = t]
    /\ pc' = [pc EXCEPT ![t] = op]
    /\ hitCache' = [hitCache EXCEPT ![t] =
                       IF op = "HTTPHistory" THEN cache.loaded
                       ELSE IF op = "HTTPHistoryCount"
                            THEN cache.loaded \/ Len(cache.locations) > 0
                            ELSE FALSE]
    /\ UNCHANGED <<file, env, handle, reader, openErr, cache, recordCount, issueOut>>
    /\ UNCHANGED StreamVars
    /\ UNCHANGED GhostVars

\* r.mu.RLock() at the head of Metadata
RLock(t) ==
    /\ reader
    /\ pc[t] = "idle"
    /\ mu.w = "none"
    /\ mu' = [mu EXCEPT !.r = @ \cup {t}]
    /\ pc' = [pc EXCEPT ![t] = "Metadata"]
    /\ UNCHANGED <<file, env, handle, reader, openErr, cache, recordCount, hitCache, issueOut>>
    /\ UNCHANGED StreamVars
    /\ UNCHANGED GhostVars

HTTPHistoryLock(t) == Lock(t, "HTTPHistory")
HTTPHistoryCountLock(t) == Lock(t, "HTTPHistoryCount")
CloseLock(t) == Lock(t, "Close")

Unlock(t) ==
    /\ mu' = [w |-> IF mu.w = t THEN "none" ELSE mu.w, r |-> mu.r \ {t}]
    /\ pc' = [pc EXCEPT ![t] = "idle"]
    /\ hitCache' = [hitCache EXCEPT ![t] = FALSE]

\* Reader.HTTPHistory after the lock, up to the deferred unlock
HTTPHistory(t) ==
    /\ pc[t] = "HTTPHistory"
    /\ \E r \in {HTTPHistoryBody(file, handle, cache)} :
          /\ cache' = r.cache
          /\ recordCount' = IF r.fresh THEN Len(r.ret) ELSE recordCount
          /\ histories' = histories \cup {IDs(r.ret)}
    /\ Unlock(t)
    /\ UNCHANGED <<file, env, handle, reader, openErr, counts, issueOut>>
    /\ UNCHANGED StreamVars

\* Reader.HTTPHistoryCount after the lock, up to the deferred unlock
HTTPHistoryCount(t) ==
    /\ pc[t] = "HTTPHistoryCount"
    /\ \E r \in {HTTPHistoryCountBody(file, handle, cache)} :
          /\ cache' = r.cache
          /\ counts' = counts \cup {r.ret}
    /\ Unlock(t)
    /\ UNCHANGED <<file, env, handle, reader, openErr, recordCount, histories, issueOut>>
    /\ UNCHANGED StreamVars

\* Reader.Metadata after the shared lock
Metadata(t) ==
    /\ pc[t] = "Metadata"
    /\ Unlock(t)
    /\ UNCHANGED <<file, env, handle, reader, openErr, cache, recordCount, issueOut>>
    /\ UNCHANGED StreamVars
    /\ UNCHANGED GhostVars

\* Reader.Close after the lock: Parser.Close, binary.Reader.Close
Close(t) ==
    /\ pc[t] = "Close"
    /\ handle' = ReaderClose(handle)
    /\ Unlock(t)
    /\ UNCHANGED <<file, env, reader, openErr, cache, recordCount, issueOut>>
    /\ UNCHANGED StreamVars
    /\ UNCHANGED GhostVars

(***************************************************************************)
(* Reader.StreamHTTPHistory: the call and the steps of its goroutine.      *)
(***************************************************************************)
NoEntry == emptyEntry(-1)

\* the call: makes the two channels and starts the goroutine; the context
\* handed in may already be cancelled
StreamHTTPHistory(cancelled) ==
    /\ reader
    /\ spc \in {"none", "done"}
    /\ spc' = "lock"
    /\ slocs' = <<>>
    /\ si' = 1
    /\ sentry' = NoEntry
    /\ ctxDone' = cancelled
    /\ ctxAtStart' = cancelled
    /\ entryChan' = <<>>
    /\ errChan' = <<>>
    /\ chanClosed' = FALSE
    /\ sent' = <<>>
    /\ errsSent' = <<>>
    /\ observed' = FALSE
    /\ UNCHANGED <<file, env, handle, reader, openErr, cache, recordCount, mu, pc, hitCache, issueOut>>
    /\ UNCHANGED GhostVars

\* a stream that walks its locations by ascending request offset
streamLocationsSorted(f, h, c) ==
    LET locs == IF Len(c.locations) = 0 THEN ScanHTTPRecords(f, h) ELSE c.locations
    IN CHOOSE s \in [1..Len(locs) -> {locs[i] : i \in 1..Len(locs)}] :
          \A i \in 1..(Len(locs) - 1) : s[i].RequestOffset < s[i + 1].RequestOffset

\* the locations the goroutine ranges over: the cached ones, or a fresh scan
\* when the cache holds none
streamLocations(f, h, c) ==
    IF Len(c.locations) = 0 THEN ScanHTTPRecords(f, h) ELSE c.locations

\* r.mu.Lock() ... r.mu.Unlock(): the locations are scanned when the cache
\* holds none (ScanHTTPRecords never returns an error)
StreamScan ==
    /\ spc = "lock"
    /\ MuFree
    /\ \E locations \in {streamLocations(file, handle, cache)} :
          /\ cache' = [cache EXCEPT !.locations = locations]
          /\ slocs' = locations
    /\ spc' = "loop"
    /\ UNCHANGED <<file, env, handle, reader, openErr, recordCount, mu, pc, hitCache, issueOut,
                   si, sentry, ctxDone, ctxAtStart, entryChan, errChan, chanClosed,
                   sent, errsSent, observed>>
    /\ UNCHANGED GhostVars

\* errChan <- ctx.Err() followed by break, which leaves the select only
SendCancelledBreak ==
    /\ Len(errChan) < 1
    /\ errChan' = Append(errChan, "Canceled")
    /\ errsSent' = Append(errsSent, "Canceled")
    /\ observed' = TRUE
    /\ spc' = "loop"
    /\ chanClosed' = chanClosed

\* errChan <- ctx.Err(); return, and the two deferred closes
SendCancelled ==
    /\ Len(errChan) < 1
    /\ errChan' = Append(errChan, "Canceled")
    /\ errsSent' = Append(errsSent, "Canceled")
    /\ observed' = TRUE
    /\ spc' = "done"
    /\ chanClosed' = TRUE

\* the range loop is exhausted: return, and the two deferred closes
StreamReturn ==
    /\ spc = "loop"
    /\ si > Len(slocs)
    /\ spc' = "done"
    /\ chanClosed' = TRUE
    /\ UNCHANGED <<file, env, handle, reader, openErr, cache, recordCount, mu, pc, hitCache, issueOut,
                   slocs, si, sentry, ctxDone, ctxAtStart, entryChan, errChan, sent,
                   errsSent, observed>>
    /\ UNCHANGED GhostVars

\* outer select, case <-ctx.Done()
StreamCancelled ==
    /\ spc = "loop"
    /\ si <= Len(slocs)
    /\ ctxDone
    /\ SendCancelled
    /\ UNCHANGED <<file, env, handle, reader, openErr, cache, recordCount, mu, pc, hitCache, issueOut,
                   slocs, si, sentry, ctxDone, ctxAtStart, entryChan, sent>>
    /\ UNCHANGED GhostVars

\* outer select, default: parse the entry; a parse error continues the loop
StreamParse ==
    /\ spc = "loop"
    /\ si <= Len(slocs)
    /\ ~ctxDone
    /\ LET r == ParseHTTPEntry(file, handle, slocs[si]) IN
          IF r.err # "none"
          THEN /\ si' = si + 1
               /\ UNCHANGED <<spc, sentry>>
          ELSE /\ spc' = "send"
               /\ sentry' = r.entry
               /\ UNCHANGED si
    /\ UNCHANGED <<file, env, handle, reader, openErr, cache, recordCount, mu, pc, hitCache, issueOut,
                   slocs, ctxDone, ctxAtStart, entryChan, errChan, chanClosed, sent,
                   errsSent, observed>>
    /\ UNCHANGED GhostVars

\* inner select, case entryChan <- *entry
StreamSendEntry ==
    /\ spc = "send"
    /\ Len(entryChan) < ChanCap
    /\ entryChan' = Append(entryChan, sentry)
    /\ sent' = Append(sent, sentry)
    /\ si' = si + 1
    /\ sentry' = NoEntry
    /\ spc' = "loop"
    /\ UNCHANGED <<file, env, handle, reader, openErr, cache, recordCount, mu, pc, hitCache, issueOut,
                   slocs, ctxDone, ctxAtStart, errChan, chanClosed, errsSent, observed>>
    /\ UNCHANGED GhostVars

\* inner select, case <-ctx.Done()
StreamSendCancelled ==
    /\ spc = "send"
    /\ ctxDone
    /\ SendCancelled
    /\ UNCHANGED <<file, env, handle, reader, openErr, cache, recordCount, mu, pc, hitCache, issueOut,
                   slocs, si, sentry, ctxDone, ctxAtStart, entryChan, sent>>
    /\ UNCHANGED GhostVars

\* the caller cancels the context
Cancel ==
    /\ spc \in {"lock", "loop", "send"}
    /\ ~ctxDone
    /\ ctxDone' = TRUE
    /\ UNCHANGED <<file, env, handle, reader, openErr, cache, recordCount, mu, pc, hitCache, issueOut,
                   spc, slocs, si, sentry, ctxAtStart, entryChan, errChan, chanClosed,
                   sent, errsSent, observed>>
    /\ UNCHANGED GhostVars

\* the consumer receives an entry
Receive ==
    /\ entryChan # <<>>
    /\ entryChan' = Tail(entryChan)
    /\ UNCHANGED <<file, env, handle, reader, openErr, cache, recordCount, mu, pc, hitCache, issueOut,
                   spc, slocs, si, sentry, ctxDone, ctxAtStart, errChan, chanClosed,
                   sent, errsSent, observed>>
    /\ UNCHANGED GhostVars

\* the consumer receives the terminal error
ReceiveErr ==
    /\ errChan # <<>>
    /\ errChan' = Tail(errChan)
    /\ UNCHANGED <<file, env, handle, reader, openErr, cache, recordCount, mu, pc, hitCache, issueOut,
                   spc, slocs, si, sentry, ctxDone, ctxAtStart, entryChan, chanClosed,
                   sent, errsSent, observed>>
    /\ UNCHANGED GhostVars

(***************************************************************************)
(* Project files of the model.                                             *)
(***************************************************************************)
RECURSIVE Flatten(_)
Flatten(ss) == IF ss = <<>> THEN <<>> ELSE Head(ss) \o Flatten(Tail(ss))

SeqsUpTo(S, n) == UNION {[1..k -> S] : k \in 0..n}

MagicHead == <<102, 133, 130, 128>>

ProjectFile(body) == [head |-> MagicHead, fill |-> HeaderSize - 4, body |-> body]

\* Records are preceded by eight framing bytes "XXXXXXXX":
\*   "GET /a\r\n\r\n" without a response,
\*   "POST /b\r\n\r\n" followed by its response "HTTP/1.1 200\r\n\r\n",
\* and "X" is a single byte between records.
Framing == <<88, 88, 88, 88, 88, 88, 88, 88>>

HTTPChunks ==
    { Framing \o <<71, 69, 84, 32, 47, 97, 13, 10, 13, 10>>,
      Framing \o <<80, 79, 83, 84, 32, 47, 98, 13, 10, 13, 10>>
              \o <<72, 84, 84, 80, 47, 49, 46, 49, 32, 50, 48, 48, 13, 10, 13, 10>>,
      <<88>> }

HTTPFiles == {ProjectFile(Flatten(cs)) : cs \in SeqsUpTo(HTTPChunks, MaxChunks)}

\* files that are not project files: empty, shorter than the magic, the magic
\* in little-endian order, one byte off, and the bare magic
OtherFiles ==
    { [head |-> <<>>, fill |-> 0, body |-> <<>>],
      [head |-> <<102>>, fill |-> 0, body |-> <<>>],
      [head |-> <<102, 133, 130>>, fill |-> 0, body |-> <<>>],
      [head |-> <<128, 130, 133, 102>>, fill |-> HeaderSize - 4, body |-> <<>>],
      [head |-> <<102, 133, 130, 129>>, fill |-> 0, body |-> <<71, 69, 84, 32>>],
      [head |-> <<0, 0, 0, 0>>, fill |-> HeaderSize - 4, body |-> <<71, 69, 84, 32, 47, 97, 13, 10, 13, 10>>],
      [head |-> MagicHead, fill |-> 0, body |-> <<>>] }

Envs == {"ok", "noent", "statfail"}

InitRest ==
    /\ handle = "none"
    /\ reader = FALSE
    /\ openErr = "notcalled"
    /\ cache = EmptyCache
    /\ recordCount = 0
    /\ mu = [w |-> "none", r |-> {}]
    /\ pc = [t \in Threads |-> "idle"]
    /\ hitCache = [t \in Threads |-> FALSE]
    /\ counts = {}
    /\ histories = {}
    /\ spc = "none"
    /\ slocs = <<>>
    /\ si = 1
    /\ sentry = NoEntry
    /\ ctxDone = FALSE
    /\ ctxAtStart = FALSE
    /\ entryChan = <<>>
    /\ errChan = <<>>
    /\ chanClosed = FALSE
    /\ sent = <<>>
    /\ errsSent = <<>>
    /\ observed = FALSE
    /\ issueOut = [kind |-> "none", filter |-> [nil |-> TRUE, set |-> {}], metas |-> <<>>]

Init ==
    /\ file \in HTTPFiles \cup OtherFiles
    /\ env \in Envs
    /\ InitRest

Queries ==
    \/ \E t \in Threads : HTTPHistoryLock(t)
    \/ \E t \in Threads : HTTPHistory(t)
    \/ \E t \in Threads : HTTPHistoryCountLock(t)
    \/ \E t \in Threads : HTTPHistoryCount(t)
    \/ \E c \in BOOLEAN : StreamHTTPHistory(c)
    \/ StreamScan
    \/ StreamReturn
    \/ StreamCancelled
    \/ StreamParse
    \/ StreamSendEntry
    \/ StreamSendCancelled
    \/ Cancel
    \/ Receive
    \/ ReceiveErr

Next ==
    \/ \E preload \in BOOLEAN : Open(preload)
    \/ Queries
    \/ \E t \in Threads : RLock(t)
    \/ \E t \in Threads : Metadata(t)
    \/ \E t \in Threads : CloseLock(t)
    \/ \E t \in Threads : Close(t)

Spec == Init /\ [][Next]_vars

\* the facade used for queries only: the Reader is never closed
NextQueries ==
    \/ \E preload \in BOOLEAN : Open(preload)
    \/ Queries

SpecQueries == Init /\ [][NextQueries]_vars

\* Project files with one request, for the fields of its entry: a request
\* line, at most one Host header, and the blank line.
\*   request lines: "GET /a", "GET /a?x=1", "GET /a?"
\*   Host headers:  none, "Host: h", "Host: h:80", "Host: h:443",
\*                  "Host: h:8443", "host: h:0", "Host: :81",
\*                  "Host: h:9223372036854775808" (2^63)
CRLF == <<13, 10>>

RequestLines ==
    { <<71, 69, 84, 32, 47, 97>>,
      <<71, 69, 84, 32, 47, 97, 63, 120, 61, 49>>,
      <<71, 69, 84, 32, 47, 97, 63>> }

HostHeaders ==
    { <<>>,
      <<72, 111, 115, 116, 58, 32, 104>>,
      <<72, 111, 115, 116, 58, 32, 104, 58, 56, 48>>,
      <<72, 111, 115, 116, 58, 32, 104, 58, 52, 52, 51>>,
      <<72, 111, 115, 116, 58, 32, 104, 58, 56, 52, 52, 51>>,
      <<104, 111, 115, 116, 58, 32, 104, 58, 48>>,
      <<72, 111, 115, 116, 58, 32, 58, 56, 49>>,
      <<72, 111, 115, 116, 58, 32, 104, 58,
        57, 50, 50, 51, 51, 55, 50, 48, 51, 54, 56, 53, 52, 55, 55, 53, 56, 48, 56>> }

RequestMessage(line, host) ==
    line \o CRLF \o (IF host = <<>> THEN <<>> ELSE host \o CRLF) \o CRLF

URLFiles ==
    {ProjectFile(Framing \o RequestMessage(line, host)) : line \in RequestLines, host \in HostHeaders}

InitURL ==
    /\ file \in URLFiles
    /\ env = "ok"
    /\ InitRest

SpecURL == InitURL /\ [][NextQueries]_vars

(***************************************************************************)
(* Properties of the facade.                                               *)
(***************************************************************************)

\* C1: every value returned by HTTPHistoryCount equals the length of every
\* slice returned by HTTPHistory, whichever was called first.
C1_CountEqualsHistoryLen ==
    \A c \in counts : \A hist \in histories : c = Len(hist)

C1_Witness ==
    /\ cache.loaded
    /\ \E c \in counts : c >= 2
    /\ histories # {}

\* C2 as claimed: a stream started with a cancelled context ends with no
\* entry sent and the cancellation error sent, whatever the number of
\* locations.
C2_CancelledAtStart ==
    (spc = "done" /\ ctxAtStart) => (sent = <<>> /\ errsSent = <<"Canceled">>)

Ascending(ids) == \A i \in 1..(Len(ids) - 1) : ids[i] < ids[i + 1]

\* C3 as claimed: the entries returned by HTTPHistory and those sent by the
\* stream are in strictly ascending ID order.
C3_AscendingIDs ==
    /\ \A hist \in histories : Ascending(hist)
    /\ Ascending(IDs(sent))

HasMagic(f) ==
    /\ Size(f) >= 4
    /\ <<ByteAt(f, 0), ByteAt(f, 1), ByteAt(f, 2), ByteAt(f, 3)>> = MagicHead

\* C4 as claimed: Open succeeds exactly on the files that start with the
\* magic, and every other file fails with ErrInvalidMagic.
C4_InvalidMagicForEveryOtherFile ==
    (env = "ok" /\ openErr # "notcalled") =>
        /\ reader <=> HasMagic(file)
        /\ ~HasMagic(file) => openErr = "ErrInvalidMagic"

\* C4 amended: Open succeeds exactly on the files that start with the magic;
\* a file of at least 4 bytes with other first bytes fails with
\* ErrInvalidMagic, a file shorter than 4 bytes fails with ErrInvalidFile,
\* and no Reader is returned with an error.
C4_InvalidMagicOrInvalidFile ==
    (env = "ok" /\ openErr # "notcalled") =>
        /\ reader <=> HasMagic(file)
        /\ reader <=> openErr = "none"
        /\ (~HasMagic(file) /\ Size(file) >= 4) => openErr = "ErrInvalidMagic"
        /\ Size(file) < 4 => openErr = "ErrInvalidFile"

C4_Witness ==
    /\ env = "ok"
    /\ Size(file) \in 1..3
    /\ openErr = "ErrInvalidFile"

\* C5: the file handle is open only while a Reader owns it, every failed
\* Open leaves it closed, and Reader.Close leaves it closed.
C5_HandleReleased ==
    /\ [](handle = "open" => reader)
    /\ []((openErr \notin {"notcalled", "none"}) => handle # "open")
    /\ [][\A t \in Threads : (pc[t] = "Close" /\ pc'[t] = "idle") => handle' = "closed"]_vars

C5_Witness ==
    /\ openErr = "ErrInvalidMagic"
    /\ handle = "closed"
    /\ ~reader

\* C6 as claimed: a populated cache (locations scanned, or history loaded)
\* is never changed by a later facade operation, and loaded never reverts.
C6_CachesImmutable ==
    [][/\ cache.loaded => (cache'.loaded /\ cache'.httpHistory = cache.httpHistory)
       /\ cache.locations # <<>> => cache'.locations = cache.locations]_vars

\* C7 as claimed: a query that finds its cache populated holds the lock in
\* shared mode.
C7_SharedModeOnCacheHit ==
    \A t \in Threads :
        (pc[t] \in {"HTTPHistory", "HTTPHistoryCount"} /\ hitCache[t]) =>
            (mu.w # t /\ t \in mu.r)

\* C8: at most one value is ever sent on the error channel; once the
\* producer has observed cancellation exactly one error, the cancellation
\* cause, has been sent, both channels are closed, and no entry is sent later.
C8_CancellationReportedOnce ==
    /\ [](Len(errsSent) <= 1)
    /\ [](observed => (errsSent = <<"Canceled">> /\ chanClosed /\ spc = "done"))
    /\ [][(observed /\ observed') => sent' = sent]_vars

C8_Witness ==
    /\ observed
    /\ ~ctxAtStart
    /\ sent # <<>>
    /\ Len(sent) < Len(slocs)

ResponseTokenIn(f, from, to) ==
    \E p \in from..(to - 1) :
        /\ p + Len(httpResponsePattern) <= Size(f)
        /\ MatchAt(f, p, Len(httpResponsePattern), 0, httpResponsePattern)

\* the start of the first request located after offset o, or the file size
NextRequestStart(f, locations, o) ==
    SetMin({p \in {locations[k].RequestOffset : k \in 1..Len(locations)} : p > o}
           \cup {Size(f)})

\* C11 as claimed: an entry whose request is not followed by "HTTP/1." before
\* the next request start (or the end of the file) has no response and
\* status code 0.
C11_RequestOnlyEntry ==
    cache.loaded =>
        \A i \in 1..Len(cache.httpHistory) :
            LET e == cache.httpHistory[i] IN
            ~ResponseTokenIn(file, e.ID + e.Request,
                             NextRequestStart(file, cache.locations, e.ID))
                => (e.Response = -1 /\ e.StatusCode = 0)

\* t occurs in u
ContainsSeq(u, t) == \E i \in 0..(Len(u) - Len(t)) : SubSeq(u, i + 1, i + Len(t)) = t

\* -x in 64-bit two's complement
Negate(x) ==
    LET c1 == (Limb - 1 - x[1]) + 1
        c2 == (Limb - 1 - x[2]) + (c1 \div Limb)
        c3 == (Limb - 1 - x[3]) + (c2 \div Limb)
        c4 == (Limb - 1 - x[4]) + (c3 \div Limb)
    IN <<c1 % Limb, c2 % Limb, c3 % Limb, c4 % Limb>>

\* the decimal text of a Go int
Decimal(x) ==
    IF x = Zero64 THEN <<48>>
    ELSE IF IsNegative(x) THEN <<45>> \o Digits(Negate(x))
    ELSE Digits(x)

\* C12 as claimed: the ID of every entry is the request offset of its
\* location; with a non-empty host and a port other than 80 and 443 the URL
\* contains ":" and the port; the URL contains "?" and the query string
\* exactly when the query string is not empty.
C12_EntryURL ==
    (cache.loaded /\ Len(cache.httpHistory) = Len(cache.locations)) =>
        \A i \in 1..Len(cache.httpHistory) :
            LET e == cache.httpHistory[i] IN
            /\ e.ID = cache.locations[i].RequestOffset
            /\ (e.Host # <<>> /\ e.Port # Port80 /\ e.Port # Port443)
                   => ContainsSeq(e.URL, <<58>> \o Decimal(e.Port))
            /\ ContainsSeq(e.URL, <<63>> \o e.QueryString) <=> (e.QueryString # <<>>)

(***************************************************************************)
(* Scanner issue scans (issues_scan.go).                                   *)
(***************************************************************************)
scannerIssueEntrySignature ==
    <<0, 0, 0, 18,
      0, 0, 58,    1, 0, 66,    2, 0, 74,    3, 0, 82,    4, 0, 90,
      5, 0, 98,    6, 0, 106,   7, 0, 107,   8, 0, 108,   9, 0, 109,
      10, 0, 110,  11, 0, 114,  12, 0, 115,  13, 0, 123,  14, 0, 131,
      15, 0, 139,  16, 0, 143,  17, 0, 151>>

scannerIssueIndexEntrySignature ==
    <<0, 0, 0, 7,
      0, 0, 25,  1, 0, 29,  2, 0, 30,  3, 0, 38,  4, 0, 39,  5, 0, 47,  6, 0, 55>>

\* the eight bytes of a big-endian u64 at offset o
U64Bytes(f, o) == [k \in 1..8 |-> ByteAt(f, o + k - 1)]

\* int64(binary.BigEndian.Uint64(b)) for values below 2^31; every other value
\* is negative or at least 2^31 and so lies outside every file of the model:
\* it is given as -1, which the callers' range tests reject as well
Int64(b) ==
    IF b[1] = 0 /\ b[2] = 0 /\ b[3] = 0 /\ b[4] = 0 /\ b[5] < 128
    THEN ((b[5] * 256 + b[6]) * 256 + b[7]) * 256 + b[8]
    ELSE -1

severityFromBurpByte(b) ==
    IF b = 1 THEN [v |-> "Info", ok |-> TRUE]
    ELSE IF b = 2 THEN [v |-> "Low", ok |-> TRUE]
    ELSE IF b = 3 THEN [v |-> "Medium", ok |-> TRUE]
    ELSE IF b = 4 THEN [v |-> "High", ok |-> TRUE]
    ELSE [v |-> "Info", ok |-> FALSE]

confidenceFromBurpByte(b) ==
    IF b = 1 THEN [v |-> "Tentative", ok |-> TRUE]
    ELSE IF b = 2 THEN [v |-> "Firm", ok |-> TRUE]
    ELSE IF b = 3 THEN [v |-> "Certain", ok |-> TRUE]
    ELSE [v |-> "Tentative", ok |-> FALSE]

NoMeta == [RecordOffset |-> 0, SerialNumber |-> <<>>, Severity |-> "Info", Confidence |-> "Tentative"]

\* a serial filter is nil or a set of serials
NilFilter == [nil |-> TRUE, set |-> {}]

\* readScannerIssueMetaAtOffset without the seenSerials test
readScannerIssueMetaAtOffsetNoSeen(f, h, abs, filterSerialNumbers, seenSerials) ==
    LET rec == ReadAt(f, h, abs, minIssueRecordLen)
        serial == U64Bytes(f, abs + serialOffset)
        sev == severityFromBurpByte(ByteAt(f, abs + sevOffset))
        conf == confidenceFromBurpByte(ByteAt(f, abs + confOffset))
        seen2 == seenSerials \cup {serial}
        Reject(seen) == [ok |-> FALSE, meta |-> NoMeta, seen |-> seen]
    IN IF abs <= 0 \/ abs >= Size(f) THEN Reject(seenSerials)
       ELSE IF rec.err # "none" \/ rec.n < minIssueRecordLen THEN Reject(seenSerials)
       ELSE IF ~MatchAt(f, rec.start, rec.n, 0, scannerIssueEntrySignature) THEN Reject(seenSerials)
       ELSE IF ~filterSerialNumbers.nil /\ serial \notin filterSerialNumbers.set THEN Reject(seenSerials)
       ELSE IF ~sev.ok THEN Reject(seen2)
       ELSE IF ~conf.ok THEN Reject(seen2)
       ELSE [ok |-> TRUE,
             meta |-> [RecordOffset |-> abs, SerialNumber |-> serial,
                       Severity |-> sev.v, Confidence |-> conf.v],
             seen |-> seen2]

\* readScannerIssueMetaAtOffset: the meta, whether it is valid, and the
\* seenSerials map as the call leaves it
readScannerIssueMetaAtOffset(f, h, abs, filterSerialNumbers, seenSerials) ==
    LET rec == ReadAt(f, h, abs, minIssueRecordLen)
        serial == U64Bytes(f, abs + serialOffset)
        sev == severityFromBurpByte(ByteAt(f, abs + sevOffset))
        conf == confidenceFromBurpByte(ByteAt(f, abs + confOffset))
        seen2 == seenSerials \cup {serial}
        Reject(seen) == [ok |-> FALSE, meta |-> NoMeta, seen |-> seen]
    IN IF abs <= 0 \/ abs >= Size(f) THEN Reject(seenSerials)
       ELSE IF rec.err # "none" \/ rec.n < minIssueRecordLen THEN Reject(seenSerials)
       ELSE IF ~MatchAt(f, rec.start, rec.n, 0, scannerIssueEntrySignature) THEN Reject(seenSerials)
       ELSE IF ~filterSerialNumbers.nil /\ serial \notin filterSerialNumbers.set THEN Reject(seenSerials)
       ELSE IF serial \in seenSerials THEN Reject(seenSerials)
       ELSE IF ~sev.ok THEN Reject(seen2)
       ELSE IF ~conf.ok THEN Reject(seen2)
       ELSE [ok |-> TRUE,
             meta |-> [RecordOffset |-> abs, SerialNumber |-> serial,
                       Severity |-> sev.v, Confidence |-> conf.v],
             seen |-> seen2]

Emit(st, r) ==
    [metas |-> IF r.ok THEN Append(st.metas, r.meta) ELSE st.metas, seen |-> r.seen]

\* the search loop of ScanScannerIssueMetas in one window
RECURSIVE IndexedWindow(_, _, _, _, _, _, _)
IndexedWindow(f, h, offset, n, searchIdx, filter, st) ==
    LET i == IndexFrom(f, offset, n, searchIdx, scannerIssueIndexEntrySignature)
        abs == offset + i
        rec == ReadAt(f, h, abs, minEntryRecordLen)
        issuePtr == Int64(U64Bytes(f, abs + issueEntryPtrOffset))
        r == readScannerIssueMetaAtOffset(f, h, issuePtr, filter, st.seen)
    IN IF i = -1 THEN st
       ELSE IF rec.err # "none" \/ rec.n < minEntryRecordLen
            THEN IndexedWindow(f, h, offset, n, i + 1, filter, st)
       ELSE IF ~MatchAt(f, rec.start, rec.n, 0, scannerIssueIndexEntrySignature)
            THEN IndexedWindow(f, h, offset, n, i + 1, filter, st)
       ELSE IndexedWindow(f, h, offset, n, i + 1, filter, Emit(st, r))

\* the search loop of ScanScannerIssueMetasRaw in one window
RECURSIVE RawWindow(_, _, _, _, _, _, _)
RawWindow(f, h, offset, n, searchIdx, filter, st) ==
    LET i == IndexFrom(f, offset, n, searchIdx, scannerIssueEntrySignature)
        abs == offset + i
        r == readScannerIssueMetaAtOffset(f, h, abs, filter, st.seen)
    IN IF i = -1 THEN st
       ELSE RawWindow(f, h, offset, n, i + 1, filter, Emit(st, r))

\* the loop over the windows, shared by the two scans
RECURSIVE IssueWindows(_, _, _, _, _, _)
IssueWindows(f, h, offset, filter, st, indexed) ==
    LET fileSize == Size(f)
        remaining == fileSize - offset
        readSize == IF remaining < IssueBufSize THEN remaining ELSE IssueBufSize
        data == ReadAt(f, h, offset, readSize)
        next == IF data.n > IssueOverlap THEN offset + data.n - IssueOverlap ELSE offset + data.n
        st2 == IF indexed THEN IndexedWindow(f, h, offset, data.n, 0, filter, st)
               ELSE RawWindow(f, h, offset, data.n, 0, filter, st)
    IN IF offset >= fileSize THEN st
       ELSE IF data.err # "none" \/ data.n = 0 THEN st
       ELSE IssueWindows(f, h, next, filter, st2, indexed)

ScanScannerIssueMetas(f, h, filter) ==
    IssueWindows(f, h, HeaderSize, filter, [metas |-> <<>>, seen |-> {}], TRUE).metas

ScanScannerIssueMetasRaw(f, h, filter) ==
    IssueWindows(f, h, HeaderSize, filter, [metas |-> <<>>, seen |-> {}], FALSE).metas

Serials(metas) == {metas[i].SerialNumber : i \in 1..Len(metas)}

\* Reader.ScannerIssueMetas: both discovery paths, merged by serial
ScannerIssueMetas(f, h) ==
    LET indexed == ScanScannerIssueMetas(f, h, NilFilter)
        direct == ScanScannerIssueMetasRaw(f, h, NilFilter)
        New(m) == m.SerialNumber \notin Serials(indexed)
    IN indexed \o SelectSeq(direct, New)

(***************************************************************************)
(* Project files with issue records.  A chunk is an issue record (serial,  *)
(* severity byte), an index entry pointing at the start of the k-th chunk *)
(* of the file, or a run of padding.                                       *)
(***************************************************************************)
Serial(n) == <<0, 0, 0, 0, 0, 0, 0, n>>

IssueRecord(serial, sev) ==
    [i \in 1..minIssueRecordLen |->
        IF i <= Len(scannerIssueEntrySignature) THEN scannerIssueEntrySignature[i]
        ELSE IF i = serialOffset + 8 THEN serial
        ELSE IF i = sevOffset + 1 THEN sev
        ELSE IF i = confOffset + 1 THEN 2
        ELSE 0]

IndexEntry(ptr) ==
    [i \in 1..minEntryRecordLen |->
        IF i <= Len(scannerIssueIndexEntrySignature) THEN scannerIssueIndexEntrySignature[i]
        ELSE IF i = issueEntryPtrOffset + 7 THEN ptr \div 256
        ELSE IF i = issueEntryPtrOffset + 8 THEN ptr % 256
        ELSE 0]

PadLen == 120

IssueChunkKinds ==
    {[kind |-> "issue", serial |-> 1, sev |-> 3],
     [kind |-> "issue", serial |-> 1, sev |-> 9],
     [kind |-> "issue", serial |-> 2, sev |-> 3]}
    \cup {[kind |-> "index", target |-> k] : k \in 1..2}
    \cup {[kind |-> "pad"]}

ChunkLen(c) ==
    IF c.kind = "issue" THEN minIssueRecordLen
    ELSE IF c.kind = "index" THEN minEntryRecordLen
    ELSE PadLen

RECURSIVE ChunkStart(_, _)
ChunkStart(cs, k) ==
    IF k <= 1 THEN HeaderSize
    ELSE ChunkStart(cs, k - 1) + (IF k - 1 <= Len(cs) THEN ChunkLen(cs[k - 1]) ELSE 0)

ChunkBytes(cs, k) ==
    IF cs[k].kind = "issue" THEN IssueRecord(cs[k].serial, cs[k].sev)
    ELSE IF cs[k].kind = "index" THEN IndexEntry(ChunkStart(cs, cs[k].target))
    ELSE [i \in 1..PadLen |-> 255]

IssueFile(cs) == ProjectFile(Flatten([k \in 1..Len(cs) |-> ChunkBytes(cs, k)]))

IssueFiles == {IssueFile(cs) : cs \in SeqsUpTo(IssueChunkKinds, MaxIssueChunks)}

Filters == {NilFilter, [nil |-> FALSE, set |-> {Serial(1)}]}

IssueVars == <<file, env, handle, reader, openErr, cache, recordCount, mu, pc, hitCache>>

\* Parser.ScanScannerIssueMetas(filterSerialNumbers)
RunScanScannerIssueMetas(filter) ==
    /\ reader
    /\ issueOut' = [kind |-> "indexed", filter |-> filter,
                    metas |-> ScanScannerIssueMetas(file, handle, filter)]
    /\ UNCHANGED IssueVars
    /\ UNCHANGED StreamVars
    /\ UNCHANGED GhostVars

\* Parser.ScanScannerIssueMetasRaw(filterSerialNumbers)
RunScanScannerIssueMetasRaw(filter) ==
    /\ reader
    /\ issueOut' = [kind |-> "raw", filter |-> filter,
                    metas |-> ScanScannerIssueMetasRaw(file, handle, filter)]
    /\ UNCHANGED IssueVars
    /\ UNCHANGED StreamVars
    /\ UNCHANGED GhostVars

\* Reader.ScannerIssueMetas()
RunScannerIssueMetas ==
    /\ reader
    /\ issueOut' = [kind |-> "merged", filter |-> NilFilter,
                    metas |-> ScannerIssueMetas(file, handle)]
    /\ UNCHANGED IssueVars
    /\ UNCHANGED StreamVars
    /\ UNCHANGED GhostVars

\* the issue scans run on an opened project file
InitIssues ==
    /\ file \in IssueFiles
    /\ env = "ok"
    /\ InitRest

NextIssues ==
    \/ Open(FALSE)
    \/ \E filter \in Filters : RunScanScannerIssueMetas(filter)
    \/ \E filter \in Filters : RunScanScannerIssueMetasRaw(filter)
    \/ RunScannerIssueMetas

SpecIssues == InitIssues /\ [][NextIssues]_vars

(***************************************************************************)
(* Repeater tab names (Parser.ScanRepeaterTabNames).                       *)
(***************************************************************************)
stringRecordHeader == <<0, 0, 0, 72, 0, 0, 0, 32>>

repeaterRecordMarker == <<0, 2, 1, 0, 10, 2, 0, 18, 0, 0, 0, 0, 0, 0, 0, 88>>

\* binary.BigEndian.Uint16 of the k-th code unit (from 0) of the bytes at s
Unit(f, s, k) == ByteAt(f, s + 2 * k) * 256 + ByteAt(f, s + 2 * k + 1)

IsHighSurrogate(u) == u >= 55296 /\ u <= 56319
IsLowSurrogate(u) == u >= 56320 /\ u <= 57343

\* utf16.Decode: a surrogate pair is one code point, a lone surrogate is
\* U+FFFD
RECURSIVE utf16Decode(_)
utf16Decode(units) ==
    IF units = <<>> THEN <<>>
    ELSE IF Len(units) >= 2 /\ IsHighSurrogate(units[1]) /\ IsLowSurrogate(units[2])
         THEN <<65536 + (units[1] - 55296) * 1024 + (units[2] - 56320)>>
              \o utf16Decode(SubSeq(units, 3, Len(units)))
    ELSE IF IsHighSurrogate(units[1]) \/ IsLowSurrogate(units[1])
         THEN <<65533>> \o utf16Decode(Tail(units))
    ELSE <<units[1]>> \o utf16Decode(Tail(units))

\* the code units of extractFixedUTF16BEString: those before the first zero
\* unit among the first maxBytes / 2
unitsBeforeZero(f, s, maxBytes) ==
    LET zeros == {k \in 0..(maxBytes \div 2 - 1) : Unit(f, s, k) = 0}
        cnt == IF zeros = {} THEN maxBytes \div 2 ELSE SetMin(zeros)
    IN [k \in 1..cnt |-> Unit(f, s, k - 1)]

\* extractFixedUTF16BEString on the n bytes at s: the string as its code points
extractFixedUTF16BEString(f, s, n, maxChars) ==
    utf16Decode(unitsBeforeZero(f, s, IF n < maxChars * 2 THEN n - (n % 2) ELSE maxChars * 2))

\* the name is appended unless it is empty or was seen
addTabName(tabNames, name) ==
    IF name = <<>> \/ (\E k \in 1..Len(tabNames) : tabNames[k] = name) THEN tabNames
    ELSE Append(tabNames, name)

\* the name of the record at position i of the window (offset, n), empty when
\* the record is not complete in the window or has no marker
tabNameAt(f, offset, n, i) ==
    IF i + minRequiredLength <= n /\ MatchAt(f, offset, n, i + markerOffset, repeaterRecordMarker)
    THEN extractFixedUTF16BEString(f, offset + i + stringOffset, n - i - stringOffset, stringChars)
    ELSE <<>>

\* the search loop of ScanRepeaterTabNames in one window
RECURSIVE RepeaterWindow(_, _, _, _, _)
RepeaterWindow(f, offset, n, searchIdx, tabNames) ==
    LET i == IndexFrom(f, offset, n, searchIdx, stringRecordHeader)
    IN IF i = -1 THEN tabNames
       ELSE RepeaterWindow(f, offset, n, i + 1, addTabName(tabNames, tabNameAt(f, offset, n, i)))

\* the loop over the windows, each one starting at the end of the one
\* before without any overlap
RECURSIVE RepeaterWindowsNoOverlap(_, _, _, _)
RepeaterWindowsNoOverlap(f, h, offset, tabNames) ==
    LET fileSize == Size(f)
        remaining == fileSize - offset
        data == ReadAt(f, h, offset, IF remaining < RepBufSize THEN remaining ELSE RepBufSize)
    IN IF offset >= fileSize THEN tabNames
       ELSE IF data.err # "none" \/ data.n = 0 THEN tabNames
       ELSE RepeaterWindowsNoOverlap(f, h, offset + data.n,
                                     RepeaterWindow(f, offset, data.n, 0, tabNames))

\* the loop over the windows
RECURSIVE RepeaterWindows(_, _, _, _)
RepeaterWindows(f, h, offset, tabNames) ==
    LET fileSize == Size(f)
        remaining == fileSize - offset
        data == ReadAt(f, h, offset, IF remaining < RepBufSize THEN remaining ELSE RepBufSize)
    IN IF offset >= fileSize THEN tabNames
       ELSE IF data.err # "none" \/ data.n = 0 THEN tabNames
       ELSE RepeaterWindows(f, h,
                            IF data.n > repeaterOverlap
                            THEN offset + data.n - repeaterOverlap
                            ELSE offset + data.n,
                            RepeaterWindow(f, offset, data.n, 0, tabNames))

ScanRepeaterTabNames(f, h) == RepeaterWindows(f, h, HeaderSize, <<>>)

\* Project files with repeater records.  A chunk is a record with a name
\* (given as its code units), a record header without the marker, or padding.
RepeaterRecord(units, marked) ==
    [i \in 1..minRequiredLength |->
        IF i <= Len(stringRecordHeader) THEN stringRecordHeader[i]
        ELSE IF i > stringOffset /\ i <= stringOffset + 2 * Len(units)
             THEN (IF (i - stringOffset) % 2 = 1
                   THEN units[(i - stringOffset + 1) \div 2] \div 256
                   ELSE units[(i - stringOffset) \div 2] % 256)
        ELSE IF marked /\ i > markerOffset THEN repeaterRecordMarker[i - markerOffset]
        ELSE 0]

RepPadLen == 100

\* names "A", "B", the empty name, a lone surrogate; "A" without marker
RepeaterChunks ==
    { RepeaterRecord(<<65>>, TRUE),
      RepeaterRecord(<<66>>, TRUE),
      RepeaterRecord(<<>>, TRUE),
      RepeaterRecord(<<55296>>, TRUE),
      RepeaterRecord(<<65>>, FALSE),
      [i \in 1..RepPadLen |-> 255] }

RepeaterFiles == {ProjectFile(Flatten(cs)) : cs \in SeqsUpTo(RepeaterChunks, MaxRepChunks)}

\* Parser.ScanRepeaterTabNames()
RunScanRepeaterTabNames ==
    /\ reader
    /\ issueOut' = [kind |-> "repeater", filter |-> NilFilter,
                    metas |-> ScanRepeaterTabNames(file, handle)]
    /\ UNCHANGED IssueVars
    /\ UNCHANGED StreamVars
    /\ UNCHANGED GhostVars

InitRepeater ==
    /\ file \in RepeaterFiles
    /\ env = "ok"
    /\ InitRest

NextRepeater ==
    \/ Open(FALSE)
    \/ RunScanRepeaterTabNames
    \/ \E t \in Threads : CloseLock(t)
    \/ \E t \in Threads : Close(t)

SpecRepeater == InitRepeater /\ [][NextRepeater]_vars

\* offsets after the header at which a complete record with its marker lies
RepeaterRecordOffsets(f) ==
    {o \in HeaderSize..(Size(f) - minRequiredLength) :
        /\ MatchAt(f, o, minRequiredLength, 0, stringRecordHeader)
        /\ MatchAt(f, o, minRequiredLength, markerOffset, repeaterRecordMarker)}

RepeaterNameAt(f, o) ==
    extractFixedUTF16BEString(f, o + stringOffset, Size(f) - o - stringOffset, stringChars)

\* the offset of the first record that carries the name
FirstRecordOf(f, name) ==
    SetMin({o \in RepeaterRecordOffsets(f) : RepeaterNameAt(f, o) = name})

\* C13: while the file is open, the result of ScanRepeaterTabNames holds
\* the non-empty name of every complete marked record after the header,
\* nothing else, each name once, in the order of the first records that
\* carry them.
C13_RepeaterNames ==
    (issueOut.kind = "repeater" /\ handle = "open") =>
        LET names == issueOut.metas IN
        /\ \A o \in RepeaterRecordOffsets(file) :
               RepeaterNameAt(file, o) # <<>> =>
                   Cardinality({k \in 1..Len(names) : names[k] = RepeaterNameAt(file, o)}) = 1
        /\ \A k \in 1..Len(names) :
               /\ names[k] # <<>>
               /\ \E o \in RepeaterRecordOffsets(file) : RepeaterNameAt(file, o) = names[k]
        /\ \A j, k \in 1..Len(names) :
               j < k => FirstRecordOf(file, names[j]) < FirstRecordOf(file, names[k])

\* a name is carried by two records, and the only record of another name
\* straddles the end of the first window; both names were returned
C13_Witness ==
    /\ issueOut.kind = "repeater"
    /\ handle = "open"
    /\ Len(issueOut.metas) = 2
    /\ \E o1, o2 \in RepeaterRecordOffsets(file) :
          o1 # o2 /\ RepeaterNameAt(file, o1) = RepeaterNameAt(file, o2)
    /\ \E o \in RepeaterRecordOffsets(file) :
          /\ o < HeaderSize + RepBufSize
          /\ o + minRequiredLength > HeaderSize + RepBufSize
          /\ \A o2 \in RepeaterRecordOffsets(file) \ {o} :
                 RepeaterNameAt(file, o2) # RepeaterNameAt(file, o)

(***************************************************************************)
(* UI tasks (Parser.ScanUITasks and the record readers it uses).           *)
(***************************************************************************)
uiTasksListOffset == 500      \* 0x1f4
maxTaskCount == 256
listWrapperLen == 22          \* vecPtrOff + 8
listCountOff == 10
listVecPtrOff == 14
maxCap == 1000000
maxTypedFieldCount == 256
maxV2FieldCount == 10000
fixedStringTotalLen == 72     \* 0x48
fixedStringCharLen == 32      \* 0x20
scopeField == 2
nameField == 8
scopeListField == 3

\* an offset beyond every file of the model: stands for the int64 values
\* from 2^31 on
BeyondFile == 1073741824

\* int64(binary.BigEndian.Uint64(b)): -1 stands for the negative values,
\* BeyondFile for the values from 2^31 on
Int64Of(b) ==
    IF b[1] >= 128 THEN -1
    ELSE IF b[1] = 0 /\ b[2] = 0 /\ b[3] = 0 /\ b[4] = 0 /\ b[5] < 128
         THEN ((b[5] * 256 + b[6]) * 256 + b[7]) * 256 + b[8]
    ELSE BeyondFile

\* binary.BigEndian.Uint16 and Uint32 of the bytes at o; the 32-bit values
\* from 2^30 on are given as BeyondFile (they are only compared with smaller
\* numbers)
Uint16At(f, o) == ByteAt(f, o) * 256 + ByteAt(f, o + 1)

Uint32At(f, o) ==
    IF ByteAt(f, o) >= 64 THEN BeyondFile
    ELSE Uint16At(f, o) * 65536 + Uint16At(f, o + 2)

listWrapperSig == <<0, 0, 0, 2, 0, 0, 10, 1, 0, 14>>

\* Parser.readListWrapper
readListWrapper(f, h, offset) ==
    LET buf == ReadAt(f, h, offset, listWrapperLen)
        ptr == U64Bytes(f, offset + listVecPtrOff)
    IN IF buf.err # "none" \/ buf.n < listWrapperLen
       THEN [err |-> "read list wrapper", count |-> 0, vecPtr |-> 0]
       ELSE IF ~MatchAt(f, buf.start, buf.n, 0, listWrapperSig)
       THEN [err |-> "unexpected list wrapper signature", count |-> 0, vecPtr |-> 0]
       ELSE IF (\A k \in 1..8 : ptr[k] = 0) \/ ptr[1] >= 128
       THEN [err |-> "invalid list wrapper vector pointer", count |-> 0, vecPtr |-> 0]
       ELSE [err |-> "none", count |-> Uint32At(f, offset + listCountOff),
             vecPtr |-> Int64Of(ptr)]

\* the elements of a pointer vector whose header was accepted
pointerVectorData(f, h, offset, capacity) ==
    LET data == ReadAt(f, h, offset + 8, capacity * 8)
    IN IF data.err # "none" \/ data.n < capacity * 8
       THEN [err |-> "read pointer vector data", ptrs |-> <<>>]
       ELSE [err |-> "none",
             ptrs |-> [i \in 1..capacity |-> Int64Of(U64Bytes(f, offset + 8 * i))]]

\* Parser.readPointerVector
readPointerVector(f, h, offset) ==
    LET buf == ReadAt(f, h, offset, 8)
    IN IF buf.err # "none" \/ buf.n < 8
       THEN [err |-> "read pointer vector header", ptrs |-> <<>>]
       ELSE IF Uint32At(f, offset + 4) = 0 \/ Uint32At(f, offset + 4) > maxCap
       THEN [err |-> "invalid pointer vector capacity", ptrs |-> <<>>]
       ELSE IF Uint32At(f, offset) # 8 + Uint32At(f, offset + 4) * 8
       THEN [err |-> "invalid pointer vector length", ptrs |-> <<>>]
       ELSE pointerVectorData(f, h, offset, Uint32At(f, offset + 4))

\* the descriptor table of a record header: field i has its id at
\* desc + 3(i-1) and its offset in the two bytes after it
fieldsOf(f, desc, fieldCount) ==
    [i \in 1..fieldCount |->
        [ID |-> ByteAt(f, desc + 3 * (i - 1)), Offset |-> Uint16At(f, desc + 3 * (i - 1) + 1)]]

\* the tests of the descriptor loop: no offset inside the header, the first
\* one right after it, none below the one before it
fieldsValid(fields, headerLen) ==
    /\ \A i \in 1..Len(fields) : fields[i].Offset >= headerLen
    /\ fields[1].Offset = headerLen
    /\ \A i \in 2..Len(fields) : fields[i].Offset >= fields[i - 1].Offset

NoRecord == [err |-> "invalid record", Type |-> 0, Fields |-> <<>>]

\* the descriptor table of readTypedRecordHeader and readV2RecordHeader; the
\* header length is the uint16 of 4 + descLen
recordFields(f, h, offset, recType, fieldCount) ==
    LET desc == ReadAt(f, h, offset + 4, fieldCount * 3)
    IN IF desc.err # "none" \/ desc.n < fieldCount * 3 THEN NoRecord
       ELSE IF ~fieldsValid(fieldsOf(f, offset + 4, fieldCount), (4 + fieldCount * 3) % 65536)
       THEN NoRecord
       ELSE [err |-> "none", Type |-> recType, Fields |-> fieldsOf(f, offset + 4, fieldCount)]

\* Parser.readTypedRecordHeader
readTypedRecordHeader(f, h, offset) ==
    LET hdr == ReadAt(f, h, offset, 4)
    IN IF hdr.err # "none" \/ hdr.n < 4 THEN NoRecord
       ELSE IF Uint16At(f, offset + 2) = 0 \/ Uint16At(f, offset + 2) > maxTypedFieldCount
       THEN NoRecord
       ELSE recordFields(f, h, offset, Uint16At(f, offset), Uint16At(f, offset + 2))

\* Parser.readV2RecordHeader
readV2RecordHeader(f, h, offset) ==
    LET hdr == ReadAt(f, h, offset, 4)
    IN IF hdr.err # "none" \/ hdr.n < 4 THEN NoRecord
       ELSE IF Uint32At(f, offset) = 0 \/ Uint32At(f, offset) > maxV2FieldCount
       THEN NoRecord
       ELSE recordFields(f, h, offset, 0, Uint32At(f, offset))

\* typedRecord.fieldOffset and v2Record.fieldOffset: the offset of the first
\* field with the id, or -1
fieldOffset(rec, id) ==
    LET hits == {i \in 1..Len(rec.Fields) : rec.Fields[i].ID = id}
    IN IF hits = {} THEN -1 ELSE rec.Fields[SetMin(hits)].Offset

\* Parser.readPointerAt: the pointer, or -1 for an error
readPointerAt(f, h, offset) ==
    LET raw == ReadAt(f, h, offset, 8)
        ptr == Int64Of(U64Bytes(f, offset))
    IN IF raw.err # "none" \/ raw.n < 8 THEN -1
       ELSE IF ptr <= 0 \/ ptr >= Size(f) THEN -1
       ELSE ptr

\* decodeUTF16BE on the n bytes at s
decodeUTF16BE(f, s, n) == utf16Decode(unitsBeforeZero(f, s, n - (n % 2)))

\* unicode.IsSpace
IsUnicodeSpace(c) ==
    \/ c \in {9, 10, 11, 12, 13, 32, 133, 160, 5760, 8232, 8233, 8239, 8287, 12288}
    \/ (c >= 8192 /\ c <= 8202)

\* strings.TrimSpace on a string given as its code points
TrimSpace(s) ==
    LET keep == {i \in 1..Len(s) : ~IsUnicodeSpace(s[i])}
    IN IF keep = {} THEN <<>> ELSE SubSeq(s, SetMin(keep), SetMax(keep))

\* Parser.tryReadFixedUTF16BEStringRecord32: ok and the string
tryReadFixedUTF16BEStringRecord32(f, h, offset) ==
    LET hdr == ReadAt(f, h, offset, 8)
        data == ReadAt(f, h, offset + 8, fixedStringCharLen * 2)
    IN IF offset <= 0 \/ offset + 8 > Size(f) THEN [ok |-> FALSE, s |-> <<>>]
       ELSE IF hdr.err # "none" \/ hdr.n < 8 THEN [ok |-> FALSE, s |-> <<>>]
       ELSE IF Uint32At(f, offset) # fixedStringTotalLen \/ Uint32At(f, offset + 4) # fixedStringCharLen
       THEN [ok |-> FALSE, s |-> <<>>]
       ELSE IF data.err # "none" \/ data.n < fixedStringCharLen * 2 THEN [ok |-> FALSE, s |-> <<>>]
       ELSE [ok |-> TRUE, s |-> decodeUTF16BE(f, data.start, data.n)]

\* the first of the candidates that reads as a string record
firstStringOf(tries) ==
    LET hits == {i \in 1..Len(tries) : tries[i].ok}
    IN IF hits = {} THEN [err |-> "unable to parse string record", s |-> <<>>]
       ELSE [err |-> "none", s |-> tries[SetMin(hits)].s]

\* Parser.readFixedUTF16BEStringRecord32: the record at ptr, ptr + 2 or ptr - 2
readFixedUTF16BEStringRecord32(f, h, ptr) ==
    firstStringOf(<<tryReadFixedUTF16BEStringRecord32(f, h, ptr),
                    tryReadFixedUTF16BEStringRecord32(f, h, ptr + 2),
                    tryReadFixedUTF16BEStringRecord32(f, h, ptr - 2)>>)

stringHeaderPrefix == <<0, 2, 0, 0, 10, 1, 0, 18, 0, 0, 0, 0>>

stringV2Descriptor == <<0, 0, 10, 1, 0, 18>>

\* the length test and the read shared by the two UTF-16 record layouts:
\* the total length at lenOff, the character count after it, the characters
\* from headerLen on.  A count above 1,000,000 fails in either order of the
\* tests and is tested first.
readUTF16Chars(f, h, start, lenOff, headerLen) ==
    LET charLen == Uint32At(f, start + lenOff + 8)
        strBytes == ReadAt(f, h, start + headerLen, charLen * 2)
    IN IF charLen > maxCap THEN [ok |-> FALSE, s |-> <<>>]
       ELSE IF Int64Of(U64Bytes(f, start + lenOff)) # 8 + charLen * 2 THEN [ok |-> FALSE, s |-> <<>>]
       ELSE IF charLen = 0 THEN [ok |-> TRUE, s |-> <<>>]
       ELSE IF strBytes.err # "none" \/ strBytes.n < charLen * 2 THEN [ok |-> FALSE, s |-> <<>>]
       ELSE [ok |-> TRUE, s |-> decodeUTF16BE(f, strBytes.start, strBytes.n)]

\* Parser.tryReadUTF16BEStringRecordV1
tryReadUTF16BEStringRecordV1(f, h, start) ==
    LET header == ReadAt(f, h, start, 32)
    IN IF header.err # "none" \/ header.n < 32 THEN [ok |-> FALSE, s |-> <<>>]
       ELSE IF ~MatchAt(f, header.start, header.n, 0, stringHeaderPrefix) THEN [ok |-> FALSE, s |-> <<>>]
       ELSE readUTF16Chars(f, h, start, 20, 32)

\* Parser.tryReadUTF16BEStringRecordV2
tryReadUTF16BEStringRecordV2(f, h, start) ==
    LET header == ReadAt(f, h, start, 30)
    IN IF header.err # "none" \/ header.n < 30 THEN [ok |-> FALSE, s |-> <<>>]
       ELSE IF Uint32At(f, start) # 2 THEN [ok |-> FALSE, s |-> <<>>]
       ELSE IF ~MatchAt(f, header.start, header.n, 4, stringV2Descriptor) THEN [ok |-> FALSE, s |-> <<>>]
       ELSE readUTF16Chars(f, h, start, 18, 30)

\* Parser.readUTF16BEStringRecord trying pointerOffset and pointerOffset + 2
\* only
readUTF16BEStringRecordNoBack(f, h, ptr) ==
    IF ptr <= 0 THEN [err |-> "invalid UTF-16 string pointer", s |-> <<>>]
    ELSE firstStringOf(<<tryReadUTF16BEStringRecordV1(f, h, ptr),
                         tryReadUTF16BEStringRecordV2(f, h, ptr),
                         tryReadUTF16BEStringRecordV1(f, h, ptr + 2),
                         tryReadUTF16BEStringRecordV2(f, h, ptr + 2)>>)

\* Parser.readUTF16BEStringRecord: both layouts at ptr, ptr + 2 and ptr - 2
readUTF16BEStringRecord(f, h, ptr) ==
    IF ptr <= 0 THEN [err |-> "invalid UTF-16 string pointer", s |-> <<>>]
    ELSE firstStringOf(<<tryReadUTF16BEStringRecordV1(f, h, ptr),
                         tryReadUTF16BEStringRecordV2(f, h, ptr),
                         tryReadUTF16BEStringRecordV1(f, h, ptr + 2),
                         tryReadUTF16BEStringRecordV2(f, h, ptr + 2),
                         tryReadUTF16BEStringRecordV1(f, h, ptr - 2),
                         tryReadUTF16BEStringRecordV2(f, h, ptr - 2)>>)

\* the string record behind the name pointer, trimmed
customNameAt(f, h, ptr) ==
    IF ptr = -1 THEN <<>> ELSE TrimSpace(readUTF16BEStringRecord(f, h, ptr).s)

\* Parser.readCustomNameFromUITaskRecord: the name, empty on every error
readCustomNameFromUITaskRecord(f, h, taskPtr, rec) ==
    IF fieldOffset(rec, nameField) = -1 THEN <<>>
    ELSE customNameAt(f, h, readPointerAt(f, h, taskPtr + fieldOffset(rec, nameField)))

\* Parser.readScopeListWrapperPtr: the pointer in field 3 of the scope
\* container, or -1
readScopeListWrapperPtr(f, h, scopeContainerPtr) ==
    LET rec == readV2RecordHeader(f, h, scopeContainerPtr)
    IN IF rec.err # "none" THEN -1
       ELSE IF fieldOffset(rec, scopeListField) = -1 THEN -1
       ELSE readPointerAt(f, h, scopeContainerPtr + fieldOffset(rec, scopeListField))

\* the scope string behind the first pointer of the scope vector
scopeOfVector(f, h, count, vec) ==
    IF vec.err # "none" THEN <<>>
    ELSE IF Len(vec.ptrs) < count THEN <<>>
    ELSE IF vec.ptrs[1] <= 0 THEN <<>>
    ELSE TrimSpace(readFixedUTF16BEStringRecord32(f, h, vec.ptrs[1]).s)

\* the scope string of the list behind the scope list pointer
scopeOfList(f, h, scopeListPtr) ==
    LET list == readListWrapper(f, h, scopeListPtr)
    IN IF scopeListPtr = -1 THEN <<>>
       ELSE IF list.err # "none" THEN <<>>
       ELSE IF list.count = 0 THEN <<>>
       ELSE scopeOfVector(f, h, list.count, readPointerVector(f, h, list.vecPtr))

\* the scope string of the container behind the scope pointer
scopeOfContainer(f, h, scopeContainerPtr) ==
    IF scopeContainerPtr = -1 THEN <<>>
    ELSE scopeOfList(f, h, readScopeListWrapperPtr(f, h, scopeContainerPtr))

\* Parser.readScopeStringFromUITaskRecord: the scope, empty on every error
readScopeStringFromUITaskRecord(f, h, taskPtr, rec) ==
    IF fieldOffset(rec, scopeField) = -1 THEN <<>>
    ELSE scopeOfContainer(f, h, readPointerAt(f, h, taskPtr + fieldOffset(rec, scopeField)))

\* fmt's %d of a natural number
RECURSIVE Itoa(_)
Itoa(n) == IF n < 10 THEN <<48 + n>> ELSE Append(Itoa(n \div 10), 48 + (n % 10))

\* hasNumericPrefix: a digit, a dot and a space
hasNumericPrefix(s) ==
    /\ Len(s) >= 3
    /\ s[1] >= 48 /\ s[1] <= 57
    /\ s[2] = 46 /\ s[3] = 32

LivePassiveCrawlFrom == <<46, 32, 76, 105, 118, 101, 32, 112, 97, 115, 115, 105, 118, 101, 32, 99, 114, 97, 119, 108, 32, 102, 114, 111, 109, 32>>
LiveAuditFrom == <<46, 32, 76, 105, 118, 101, 32, 97, 117, 100, 105, 116, 32, 102, 114, 111, 109, 32>>
CustomTask == <<46, 32, 67, 117, 115, 116, 111, 109, 32, 116, 97, 115, 107>>
DotSpace == <<46, 32>>
TaskTypeOpen == <<46, 32, 84, 97, 115, 107, 32, 40, 116, 121, 112, 101, 61>>
TaskTypeClose == <<41>>

\* the display name of a custom task (types 2 and 3)
customDisplayName(scope, custom, taskIndex) ==
    IF custom = <<>> THEN [err |-> "none", scope |-> scope, name |-> Itoa(taskIndex) \o CustomTask]
    ELSE IF hasNumericPrefix(custom) THEN [err |-> "none", scope |-> scope, name |-> custom]
    ELSE [err |-> "none", scope |-> scope, name |-> Itoa(taskIndex) \o DotSpace \o custom]

\* the switch of buildUITaskDisplayName
displayNameOf(f, h, taskPtr, rec, taskIndex, scope) ==
    IF rec.Type = 4
    THEN (IF scope = <<>> THEN [err |-> "unable to locate task scope string", scope |-> <<>>, name |-> <<>>]
          ELSE [err |-> "none", scope |-> scope, name |-> Itoa(taskIndex) \o LivePassiveCrawlFrom \o scope])
    ELSE IF rec.Type = 5
    THEN (IF scope = <<>> THEN [err |-> "unable to locate task scope string", scope |-> <<>>, name |-> <<>>]
          ELSE [err |-> "none", scope |-> scope, name |-> Itoa(taskIndex) \o LiveAuditFrom \o scope])
    ELSE IF rec.Type \in {2, 3}
    THEN customDisplayName(scope, readCustomNameFromUITaskRecord(f, h, taskPtr, rec), taskIndex)
    ELSE IF scope # <<>>
    THEN [err |-> "none", scope |-> scope,
          name |-> Itoa(taskIndex) \o TaskTypeOpen \o Itoa(rec.Type) \o TaskTypeClose \o <<32>> \o scope]
    ELSE [err |-> "none", scope |-> <<>>,
          name |-> Itoa(taskIndex) \o TaskTypeOpen \o Itoa(rec.Type) \o TaskTypeClose]

\* Parser.buildUITaskDisplayName
buildUITaskDisplayName(f, h, taskPtr, rec, taskIndex) ==
    displayNameOf(f, h, taskPtr, rec, taskIndex, readScopeStringFromUITaskRecord(f, h, taskPtr, rec))

\* one round of the task loop: the first failure ends the scan with no tasks
addTask(st, taskPtr, rec, built) ==
    IF rec.err # "none" THEN [err |-> "read task record header", tasks |-> <<>>]
    ELSE IF built.err # "none" THEN [err |-> "build task name", tasks |-> <<>>]
    ELSE [err |-> "none",
          tasks |-> Append(st.tasks, [ID |-> taskPtr, Type |-> rec.Type,
                                      Name |-> built.name, Scope |-> built.scope])]

taskAt(f, h, st, taskPtr, rec, taskIndex) ==
    addTask(st, taskPtr, rec,
            IF rec.err # "none" THEN [err |-> "none", scope |-> <<>>, name |-> <<>>]
            ELSE buildUITaskDisplayName(f, h, taskPtr, rec, taskIndex))

\* the task loop of ScanUITasks from index i (from 0) on
RECURSIVE scanTasks(_, _, _, _, _, _)
scanTasks(f, h, ptrs, count, i, st) ==
    IF i >= count \/ st.err # "none" THEN st
    ELSE IF ptrs[i + 1] <= 0 THEN [err |-> "invalid task pointer", tasks |-> <<>>]
    ELSE scanTasks(f, h, ptrs, count, i + 1,
                   taskAt(f, h, st, ptrs[i + 1], readTypedRecordHeader(f, h, ptrs[i + 1]), i + 1))

\* the pointer vector of the root list and the loop over it
tasksOfVector(f, h, count, vec) ==
    IF vec.err # "none" THEN [err |-> "read UI tasks pointer vector", tasks |-> <<>>]
    ELSE IF Len(vec.ptrs) < count THEN [err |-> "UI tasks vector too small", tasks |-> <<>>]
    ELSE scanTasks(f, h, vec.ptrs, count, 0, [err |-> "none", tasks |-> <<>>])

\* Parser.ScanUITasks: the error and the tasks returned
ScanUITasks(f, h) ==
    LET list == readListWrapper(f, h, uiTasksListOffset)
    IN IF list.err # "none" THEN [err |-> "read UI tasks list wrapper", tasks |-> <<>>]
       ELSE IF list.count = 0 THEN [err |-> "none", tasks |-> <<>>]
       ELSE IF list.count > maxTaskCount THEN [err |-> "UI tasks list count too large", tasks |-> <<>>]
       ELSE tasksOfVector(f, h, list.count, readPointerVector(f, h, list.vecPtr))

\* Project files with a root list of UI tasks.  Every structure lies at a
\* fixed offset; a task is given by its type and by what its scope field
\* holds: the pointer to the scope container after the header, the pointer
\* to a scope container inside the 256-byte file header, or no pointer.
BE16(n) == <<n \div 256, n % 256>>
BE32(n) == <<0, 0>> \o BE16(n)
BE64(n) == <<0, 0, 0, 0, 0, 0>> \o BE16(n)
Zeros(n) == [i \in 1..n |-> 0]

LowContainerAt == 100
RootVectorAt == uiTasksListOffset + listWrapperLen
TaskRecordLen == 26
TaskAt(k) == RootVectorAt + 8 + 8 * MaxTasks + TaskRecordLen * (k - 1)
ScopeContainerAt == TaskAt(MaxTasks + 1)
ScopeListAt == ScopeContainerAt + 15
ScopeVectorAt == ScopeListAt + listWrapperLen
ScopeStringAt == ScopeVectorAt + 16
CustomNameAt == ScopeStringAt + fixedStringTotalLen

ListWrapperBytes(count, vecPtr) == listWrapperSig \o BE32(count) \o BE64(vecPtr)

PointerVectorBytes(ptrs) ==
    BE32(8 + 8 * Len(ptrs)) \o BE32(Len(ptrs)) \o Flatten([i \in 1..Len(ptrs) |-> BE64(ptrs[i])])

ScopePointer(kind) ==
    IF kind = "after header" THEN ScopeContainerAt
    ELSE IF kind = "in header" THEN LowContainerAt
    ELSE 0

\* type, two fields (0x02 at 10, 0x08 at 18), the scope and name pointers
TaskRecordBytes(task) ==
    BE16(task.type) \o BE16(2) \o <<scopeField>> \o BE16(10) \o <<nameField>> \o BE16(18)
    \o BE64(ScopePointer(task.scope)) \o BE64(CustomNameAt)

\* one field (3 at 7): the pointer to the scope list
ScopeContainerBytes == BE32(1) \o <<scopeListField>> \o BE16(7) \o BE64(ScopeListAt)

\* the scope " in" with a leading space
ScopeStringBytes ==
    BE32(fixedStringTotalLen) \o BE32(fixedStringCharLen) \o <<0, 32, 0, 105, 0, 110>>
    \o Zeros(fixedStringCharLen * 2 - 6)

\* the name "n" in the first layout
CustomNameBytes == stringHeaderPrefix \o Zeros(8) \o BE64(10) \o BE32(1) \o <<0, 110>>

TaskFileBytes(tasks) ==
    MagicHead \o Zeros(LowContainerAt - 4) \o ScopeContainerBytes
    \o Zeros(uiTasksListOffset - LowContainerAt - 15)
    \o ListWrapperBytes(Len(tasks), RootVectorAt)
    \o PointerVectorBytes([k \in 1..MaxTasks |-> IF k <= Len(tasks) THEN TaskAt(k) ELSE 0])
    \o Flatten([k \in 1..MaxTasks |->
                   IF k <= Len(tasks) THEN TaskRecordBytes(tasks[k]) ELSE Zeros(TaskRecordLen)])
    \o ScopeContainerBytes
    \o ListWrapperBytes(1, ScopeVectorAt)
    \o PointerVectorBytes(<<ScopeStringAt>>)
    \o ScopeStringBytes
    \o CustomNameBytes

TaskKinds ==
    [type : {2, 4, 5, 7}, scope : {"after header", "in header", "none"}]

TaskFiles ==
    {[head |-> TaskFileBytes(tasks), fill |-> 0, body |-> <<>>] :
        tasks \in SeqsUpTo(TaskKinds, MaxTasks)}

\* Parser.ScanUITasks()
RunScanUITasks ==
    /\ reader
    /\ \E r \in {ScanUITasks(file, handle)} :
          issueOut' = [kind |-> "uitasks", filter |-> NilFilter, metas |-> r.tasks, err |-> r.err]
    /\ UNCHANGED IssueVars
    /\ UNCHANGED StreamVars
    /\ UNCHANGED GhostVars

InitTasks ==
    /\ file \in TaskFiles
    /\ env = "ok"
    /\ InitRest

NextTasks ==
    \/ Open(FALSE)
    \/ RunScanUITasks
    \/ \E t \in Threads : CloseLock(t)
    \/ \E t \in Threads : Close(t)

SpecTasks == InitTasks /\ [][NextTasks]_vars

\* the pointers of the root list of the file
RootTaskPointers(f) ==
    LET list == readListWrapper(f, "open", uiTasksListOffset)
    IN IF list.err # "none" THEN <<>>
       ELSE SubSeq(readPointerVector(f, "open", list.vecPtr).ptrs, 1, list.count)

\* the task behind the pointer is of type 4 or 5 and its scope does not resolve
ScopeRequiredAndMissing(f, taskPtr) ==
    /\ readTypedRecordHeader(f, "open", taskPtr).Type \in {4, 5}
    /\ readScopeStringFromUITaskRecord(f, "open", taskPtr,
                                       readTypedRecordHeader(f, "open", taskPtr)) = <<>>

\* C14: after ScanUITasks on an open file, a task of the root list is
\* missing from the result when it is of type 4 or 5 and its scope does not
\* resolve, and every other task of the root list is in the result with a
\* display name, whatever happened to the tasks around it.
C14_TaskFailureIsLocal ==
    (issueOut.kind = "uitasks" /\ handle = "open") =>
        \A i \in 1..Len(RootTaskPointers(file)) :
            LET taskPtr == RootTaskPointers(file)[i]
                found == {k \in 1..Len(issueOut.metas) : issueOut.metas[k].ID = taskPtr}
            IN IF ScopeRequiredAndMissing(file, taskPtr) THEN found = {}
               ELSE \E k \in found : issueOut.metas[k].Name # <<>>


\* C16: a task returned by ScanUITasks with a scope got it by following the
\* pointer in its field 0x02, so that pointer lies after the 256-byte file
\* header and inside the file.
C16_PointersAfterHeader ==
    (issueOut.kind = "uitasks" /\ handle = "open") =>
        \A k \in 1..Len(issueOut.metas) :
            LET task == issueOut.metas[k]
                rec == readTypedRecordHeader(file, "open", task.ID)
                p == Int64Of(U64Bytes(file, task.ID + fieldOffset(rec, scopeField)))
            IN task.Scope # <<>> => (p > HeaderSize /\ p < Size(file))

(***************************************************************************)
(* Full-text search (Search, SearchStream and their helpers).  Texts are   *)
(* sequences of bytes; queries are plain ASCII text.                       *)
(***************************************************************************)
SearchScopes == {"all", "requests", "responses", "headers", "bodies", "urls"}

contextRadius == 50

\* strings.Index(text[from:], pat) + from for indexes from 0, or -1
SeqIndexFrom(text, from, pat) ==
    LET hits == {i \in from..(Len(text) - Len(pat)) :
                    \A k \in 1..Len(pat) : text[i + k] = pat[k]}
    IN IF hits = {} THEN -1 ELSE SetMin(hits)

\* strings.ToLower on ASCII text
ToLowerText(s) == [i \in 1..Len(s) |-> ToLower(s[i])]

\* strings.ReplaceAll(s, "\r\n", " ") followed by strings.ReplaceAll(s, "\n", " ")
RECURSIVE replaceNewlines(_)
replaceNewlines(s) ==
    IF s = <<>> THEN <<>>
    ELSE IF Len(s) >= 2 /\ s[1] = 13 /\ s[2] = LF
         THEN <<32>> \o replaceNewlines(SubSeq(s, 3, Len(s)))
    ELSE IF s[1] = LF THEN <<32>> \o replaceNewlines(Tail(s))
    ELSE <<s[1]>> \o replaceNewlines(Tail(s))

\* the match of searchText at actualIdx
matchAt(text, queryLen, actualIdx, location) ==
    [Location |-> location,
     Context |-> replaceNewlines(SubSeq(text,
                     (IF actualIdx - contextRadius < 0 THEN 0 ELSE actualIdx - contextRadius) + 1,
                     Min(actualIdx + queryLen + contextRadius, Len(text)))),
     Offset |-> actualIdx,
     Length |-> queryLen]

\* the loop of searchText from offset on
RECURSIVE searchTextFrom(_, _, _, _, _)
searchTextFrom(text, sText, sQuery, offset, location) ==
    LET actualIdx == SeqIndexFrom(sText, offset, sQuery)
    IN IF actualIdx = -1 THEN <<>>
       ELSE <<matchAt(text, Len(sQuery), actualIdx, location)>>
            \o searchTextFrom(text, sText, sQuery, actualIdx + Len(sQuery), location)

\* searchText; it is the searchFunc of Search and SearchStream
searchText(text, opts, location) ==
    IF opts.CaseSensitive THEN searchTextFrom(text, text, opts.Query, 0, location)
    ELSE searchTextFrom(text, ToLowerText(text), ToLowerText(opts.Query), 0, location)

\* strings.Split(s, "\n")
RECURSIVE SplitLines(_)
SplitLines(s) ==
    LET nl == SeqIndexFrom(s, 0, <<LF>>)
    IN IF nl = -1 THEN <<s>>
       ELSE <<SubSeq(s, 1, nl)>> \o SplitLines(SubSeq(s, nl + 2, Len(s)))

\* parseHTTPMessage: where the header section ends and the body starts
messageSplit(data) ==
    IF SeqIndexFrom(data, 0, <<13, 10, 13, 10>>) # -1
    THEN [headerEnd |-> SeqIndexFrom(data, 0, <<13, 10, 13, 10>>),
          bodyStart |-> SeqIndexFrom(data, 0, <<13, 10, 13, 10>>) + 4]
    ELSE IF SeqIndexFrom(data, 0, <<10, 10>>) # -1
    THEN [headerEnd |-> SeqIndexFrom(data, 0, <<10, 10>>),
          bodyStart |-> SeqIndexFrom(data, 0, <<10, 10>>) + 2]
    ELSE [headerEnd |-> Len(data), bodyStart |-> Len(data)]

\* the key and value of a trimmed header line, or no header
headerOfLine(line) ==
    LET idx == SeqIndexFrom(line, 0, <<58>>)
    IN IF idx > 0
       THEN <<[key |-> TrimSpace(SubSeq(line, 1, idx)),
               value |-> TrimSpace(SubSeq(line, idx + 2, Len(line)))]>>
       ELSE <<>>

\* the headers of the lines after the start line, in the order of the lines
RECURSIVE headersOfLines(_, _)
headersOfLines(lines, i) ==
    IF i > Len(lines) THEN <<>>
    ELSE headerOfLine(TrimSpace(lines[i])) \o headersOfLines(lines, i + 1)

\* msg.Headers[key] = append(msg.Headers[key], value): the keys in the order
\* of their first line, each with its values
headerMap(hs) ==
    LET firsts == {i \in 1..Len(hs) : \A j \in 1..(i - 1) : hs[j].key # hs[i].key}
        nth(k) == CHOOSE i \in firsts : Cardinality({j \in firsts : j < i}) = k - 1
        valuesOf(key) == SelectSeq(hs, LAMBDA x : x.key = key)
    IN [k \in 1..Cardinality(firsts) |->
           [key |-> hs[nth(k)].key,
            values |-> [v \in 1..Len(valuesOf(hs[nth(k)].key)) |-> valuesOf(hs[nth(k)].key)[v].value]]]

\* parseHTTPMessage: Raw, Headers and Body (hasBody is false for a nil Body)
parseMessageAt(data, split) ==
    [nil |-> FALSE,
     Raw |-> data,
     Headers |-> headerMap(headersOfLines(SplitLines(SubSeq(data, 1, split.headerEnd)), 2)),
     hasBody |-> split.bodyStart < Len(data),
     Body |-> SubSeq(data, split.bodyStart + 1, Len(data))]

parseHTTPMessage(data) == parseMessageAt(data, messageSplit(data))

NilMessage == [nil |-> TRUE, Raw |-> <<>>, Headers |-> <<>>, hasBody |-> FALSE, Body |-> <<>>]

\* the location of the entry with the ID
LocationOf(locations, id) ==
    locations[CHOOSE i \in 1..Len(locations) : locations[i].RequestOffset = id]

\* the HTTPEntry as Search sees it: the fields of the entry with the parsed
\* request and response
searchEntryOf(f, loc, e) ==
    [ID |-> e.ID, URL |-> e.URL, Path |-> e.Path, QueryString |-> e.QueryString,
     Request |-> IF e.Request = -1 THEN NilMessage
                 ELSE parseHTTPMessage(Bytes(f, e.ID, e.ID + e.Request)),
     Response |-> IF e.Response = -1 THEN NilMessage
                  ELSE parseHTTPMessage(Bytes(f, loc.ResponseOffset, loc.ResponseOffset + e.Response))]

SearchEntries(f, c) ==
    [i \in 1..Len(c.httpHistory) |->
        searchEntryOf(f, LocationOf(c.locations, c.httpHistory[i].ID), c.httpHistory[i])]

\* the indexes 1..n in the order in which the map iteration visits them:
\* order ranks the keys
visitOrder(n, order) ==
    CHOOSE s \in [1..n -> 1..n] :
        /\ \A i, j \in 1..n : i # j => s[i] # s[j]
        /\ \A i, j \in 1..n : i < j => order[s[i]] < order[s[j]]

\* the matches of one key and its values
searchHeader(header, location, opts) ==
    searchText(header.key, opts, location)
    \o Flatten([v \in 1..Len(header.values) |-> searchText(header.values[v], opts, location)])

\* searchHeaders: the keys are visited in the order of the map iteration
searchHeaders(headers, location, opts, order) ==
    Flatten([k \in 1..Len(headers) |->
                searchHeader(headers[visitOrder(Len(headers), order)[k]], location, opts)])

reqLocation == "request"
respLocation == "response"
urlLocation == "url"
pathLocation == "path"
queryLocation == "query"
reqHeaderLocation == "request_header"
respHeaderLocation == "response_header"
reqBodyLocation == "request_body"
respBodyLocation == "response_body"

\* searchEntry: the URL, the raw request and the raw response
searchEntry(entry, opts) ==
    searchText(entry.URL, opts, urlLocation)
    \o (IF entry.Request.nil THEN <<>> ELSE searchText(entry.Request.Raw, opts, reqLocation))
    \o (IF entry.Response.nil THEN <<>> ELSE searchText(entry.Response.Raw, opts, respLocation))

\* the switch on opts.Scope in Search
scopedMatches(entry, opts, order) ==
    IF opts.Scope = "all" THEN searchEntry(entry, opts)
    ELSE IF opts.Scope = "requests"
    THEN (IF entry.Request.nil THEN <<>> ELSE searchText(entry.Request.Raw, opts, reqLocation))
    ELSE IF opts.Scope = "responses"
    THEN (IF entry.Response.nil THEN <<>> ELSE searchText(entry.Response.Raw, opts, respLocation))
    ELSE IF opts.Scope = "headers"
    THEN (IF entry.Request.nil THEN <<>>
          ELSE searchHeaders(entry.Request.Headers, reqHeaderLocation, opts, order))
         \o (IF entry.Response.nil THEN <<>>
             ELSE searchHeaders(entry.Response.Headers, respHeaderLocation, opts, order))
    ELSE IF opts.Scope = "bodies"
    THEN (IF entry.Request.nil \/ ~entry.Request.hasBody THEN <<>>
          ELSE searchText(entry.Request.Body, opts, reqBodyLocation))
         \o (IF entry.Response.nil \/ ~entry.Response.hasBody THEN <<>>
             ELSE searchText(entry.Response.Body, opts, respBodyLocation))
    ELSE searchText(entry.URL, opts, urlLocation)
         \o searchText(entry.Path, opts, pathLocation)
         \o (IF entry.QueryString # <<>> THEN searchText(entry.QueryString, opts, queryLocation)
             ELSE <<>>)

\* one round of the result loop of Search and of SearchStream
addResult(results, entry, matches) ==
    IF Len(matches) > 0
    THEN Append(results, [Entry |-> entry.ID, Matches |-> matches, Score |-> Len(matches)])
    ELSE results

\* the loop of Search from entry i on
RECURSIVE searchLoop(_, _, _, _, _)
searchLoop(entries, opts, order, i, results) ==
    IF i > Len(entries) THEN results
    ELSE IF opts.MaxResults > 0 /\ Len(results) >= opts.MaxResults THEN results
    ELSE searchLoop(entries, opts, order, i + 1,
                    addResult(results, entries[i], scopedMatches(entries[i], opts, order)))

\* Search
Search(entries, opts, order) ==
    IF opts.Query = <<>> THEN <<>> ELSE searchLoop(entries, opts, order, 1, <<>>)

\* the loop of the goroutine of SearchStream from entry i on: what it has
\* sent on resultChan.  The context is context.Background(), as in
\* runSearch, so the receives from ctx.Done() never happen.
RECURSIVE streamLoop(_, _, _, _)
streamLoop(entries, opts, i, results) ==
    IF i > Len(entries) THEN results
    ELSE IF opts.MaxResults > 0 /\ Len(results) >= opts.MaxResults THEN results
    ELSE streamLoop(entries, opts, i + 1,
                    addResult(results, entries[i], searchEntry(entries[i], opts)))

\* SearchStream: the results received from resultChan until it is closed
SearchStream(entries, opts) == streamLoop(entries, opts, 1, <<>>)

\* Project files for the search:
\*   "GET /x?a=1\r\nHost: h\r\nA: x\r\n\r\n" without a response,
\*   "POST /b\r\nHost: a\r\n\r\n" followed by its response
\*   "HTTP/1.1 200\r\nX: b\r\n\r\nxa",
\* and "X" is a single byte between records.
SearchChunks ==
    { Framing \o <<71, 69, 84, 32, 47, 120, 63, 97, 61, 49, 13, 10, 72, 111, 115, 116, 58, 32, 104, 13, 10, 65, 58, 32, 120, 13, 10, 13, 10>>,
      Framing \o <<80, 79, 83, 84, 32, 47, 98, 13, 10, 72, 111, 115, 116, 58, 32, 97, 13, 10, 13, 10>>
              \o <<72, 84, 84, 80, 47, 49, 46, 49, 32, 50, 48, 48, 13, 10, 88, 58, 32, 98, 13, 10, 13, 10, 120, 97>>,
      <<88>> }

SearchFiles == {ProjectFile(Flatten(cs)) : cs \in SeqsUpTo(SearchChunks, MaxChunks)}

\* the queries "x" and "a"
SearchQueries == {<<120>>, <<97>>}

SearchOptions ==
    [Query : SearchQueries, CaseSensitive : BOOLEAN, Scope : SearchScopes, MaxResults : 0..MaxResultsBound]

\* the orders in which a map iteration can visit the header keys of a message
KeyOrders ==
    {o \in [1..MaxHeaderKeys -> 1..MaxHeaderKeys] : \A i, j \in 1..MaxHeaderKeys : i # j => o[i] # o[j]}

\* Search over the loaded history and SearchStream over the same entries;
\* as in runSearch, one search is run on an opened file
RunSearch(opts, order) ==
    /\ reader
    /\ cache.loaded
    /\ issueOut.kind = "none"
    /\ \E entries \in {SearchEntries(file, cache)} :
          issueOut' = [kind |-> "search", filter |-> NilFilter, opts |-> opts,
                       metas |-> Search(entries, opts, order),
                       streamed |-> SearchStream(entries, opts)]
    /\ UNCHANGED IssueVars
    /\ UNCHANGED StreamVars
    /\ UNCHANGED GhostVars

InitSearch ==
    /\ file \in SearchFiles
    /\ env = "ok"
    /\ InitRest

NextSearch ==
    \/ Open(TRUE)
    \/ \E opts \in SearchOptions : \E order \in KeyOrders : RunSearch(opts, order)
    \/ \E t \in Threads : CloseLock(t)
    \/ \E t \in Threads : Close(t)

SpecSearch == InitSearch /\ [][NextSearch]_vars

\* the locations a scope covers
LocationsOf(scope) ==
    IF scope = "requests" THEN {reqLocation}
    ELSE IF scope = "responses" THEN {respLocation}
    ELSE IF scope = "headers" THEN {reqHeaderLocation, respHeaderLocation}
    ELSE IF scope = "bodies" THEN {reqBodyLocation, respBodyLocation}
    ELSE IF scope = "urls" THEN {urlLocation, pathLocation, queryLocation}
    ELSE {reqLocation, respLocation, reqHeaderLocation, respHeaderLocation,
          reqBodyLocation, respBodyLocation, urlLocation, pathLocation, queryLocation}

InScope(results, scope) ==
    \A r \in 1..Len(results) : \A m \in 1..Len(results[r].Matches) :
        results[r].Matches[m].Location \in LocationsOf(scope)

\* C15: for a non-empty query, the results of Search and the results sent by
\* SearchStream hold only matches located in the scope of the options, and
\* SearchStream sends the results Search returns, in the same order.
C15_ScopedSearch ==
    issueOut.kind = "search" =>
        /\ InScope(issueOut.metas, issueOut.opts.Scope)
        /\ InScope(issueOut.streamed, issueOut.opts.Scope)
        /\ issueOut.streamed = issueOut.metas

(***************************************************************************)
(* UTF-8 string records (Parser.readUTF8StringRecord).  The two uint32     *)
(* header fields are kept as their 16-bit halves; byte counts that can    *)
(* exceed 2^31 are kept as 64-bit limbs.                                   *)
(***************************************************************************)
\* binary.BigEndian.Uint32 as its two halves
Uint32Halves(f, o) == [hi |-> Uint16At(f, o), lo |-> Uint16At(f, o + 2)]

\* 8 + v in uint32 arithmetic: the carry out of the top half is dropped
Add8(v) == [hi |-> (v.hi + (v.lo + 8) \div Limb) % Limb, lo |-> (v.lo + 8) % Limb]

\* 8 + v without any width
Add8Exact(v) == <<(v.lo + 8) % Limb, (v.hi + (v.lo + 8) \div Limb) % Limb,
                  (v.hi + (v.lo + 8) \div Limb) \div Limb, 0>>

\* int(v) and int64(n) as limbs
Limbs32(v) == <<v.lo, v.hi, 0, 0>>
LimbsOf(n) == IF n <= 0 THEN Zero64 ELSE <<n % Limb, n \div Limb, 0, 0>>

\* a < b for non-negative 64-bit values
Less64(a, b) ==
    \E k \in 1..4 : a[k] < b[k] /\ \A j \in (k + 1)..4 : a[j] = b[j]

\* readUTF8StringRecord after the header was read: the length test in
\* uint32 arithmetic and the read of byteLen bytes, of which avail lie in
\* the file after the header; the outcome and the number of bytes read
utf8RecordRead(totalLen, byteLen, avail) ==
    IF totalLen # Add8(byteLen) THEN [err |-> "invalid UTF-8 string record length", n |-> Zero64]
    ELSE IF byteLen = [hi |-> 0, lo |-> 0] THEN [err |-> "none", n |-> Zero64]
    ELSE IF avail = Zero64 THEN [err |-> "read string bytes", n |-> Zero64]
    ELSE IF Less64(avail, Limbs32(byteLen)) THEN [err |-> "read string bytes", n |-> Zero64]
    ELSE [err |-> "none", n |-> Limbs32(byteLen)]

\* strings.TrimRight(s, "\x00")
TrimRightNUL(s) ==
    LET keep == {i \in 1..Len(s) : s[i] # NUL}
    IN IF keep = {} THEN <<>> ELSE SubSeq(s, 1, SetMax(keep))

\* the string of a record whose read succeeded
utf8String(f, offset, r) ==
    IF r.err # "none" THEN [err |-> r.err, s |-> <<>>]
    ELSE [err |-> "none", s |-> TrimRightNUL(Bytes(f, offset + 8, offset + 8 + IntOf(r.n)))]

\* Parser.readUTF8StringRecord
readUTF8StringRecord(f, h, offset) ==
    LET header == ReadAt(f, h, offset, 8)
    IN IF offset <= 0 THEN [err |-> "invalid string offset", s |-> <<>>]
       ELSE IF header.err # "none" \/ header.n < 8 THEN [err |-> "read string header", s |-> <<>>]
       ELSE utf8String(f, offset,
                utf8RecordRead(Uint32Halves(f, offset), Uint32Halves(f, offset + 4),
                               LimbsOf(Size(f) - offset - 8)))

\* Header values at the edges of the 32-bit range and byte counts after the
\* header up to more than 4 GiB.
EdgeLows == {0, 1, 7, 8, 9, 65528, 65535}
EdgeValues == [hi : {0, 1, 65535}, lo : EdgeLows]
AvailValues ==
    { Zero64, <<9, 0, 0, 0>>, <<65535, 65535, 0, 0>>, <<0, 0, MaxAvailHigh, 0>> }

\* Parser.readUTF8StringRecord on a record with the two header values and
\* avail bytes after the header
RunReadUTF8StringRecord(totalLen, byteLen, avail) ==
    /\ issueOut' = [kind |-> "utf8", filter |-> NilFilter, metas |-> <<>>,
                    totalLen |-> totalLen, byteLen |-> byteLen,
                    read |-> utf8RecordRead(totalLen, byteLen, avail)]
    /\ UNCHANGED IssueVars
    /\ UNCHANGED StreamVars
    /\ UNCHANGED GhostVars

InitUTF8 ==
    /\ file = ProjectFile(<<>>)
    /\ env = "ok"
    /\ InitRest

NextUTF8 ==
    \E totalLen \in EdgeValues : \E byteLen \in EdgeValues : \E avail \in AvailValues :
        RunReadUTF8StringRecord(totalLen, byteLen, avail)

SpecUTF8 == InitUTF8 /\ [][NextUTF8]_vars

\* C20: readUTF8StringRecord returns a string without error only when
\* total_len equals 8 + byte_len as numbers, also where 8 + byte_len exceeds
\* 2^32 - 1; with byte_len = 0 the string is empty.
C20_LengthTestExact ==
    (issueOut.kind = "utf8" /\ issueOut.read.err = "none") =>
        /\ Limbs32(issueOut.totalLen) = Add8Exact(issueOut.byteLen)
        /\ issueOut.byteLen = [hi |-> 0, lo |-> 0] => issueOut.read.n = Zero64

(***************************************************************************)
(* Evidence messages (Parser.resolveRequestResponse and                    *)
(* Parser.collectHTTPMessages).                                            *)
(***************************************************************************)
issueEvidenceScanLen == 65536
issueEvidenceMaxMessageSize == 52428800
issueEvidenceMaxTypedRecRead == 65536
issueEvidenceMaxDepth == 6

\* "HTTP/"
httpPrefix == <<72, 84, 84, 80, 47>>

HasPrefix(s, pat) == Len(s) >= Len(pat) /\ SubSeq(s, 1, Len(pat)) = pat

\* isHTTPMethodStart
isHTTPMethodStart(line) ==
    \E k \in 1..Len(httpMethodPatterns) : HasPrefix(line, httpMethodPatterns[k])

\* looksLikeHTTPStartLine
looksLikeHTTPStartLine(line) == HasPrefix(line, httpPrefix) \/ isHTTPMethodStart(line)

\* msg.StartLine of parseHTTPMessage
startLineOf(data) == TrimSpace(SplitLines(SubSeq(data, 1, messageSplit(data).headerEnd))[1])

\* the message of the data, or no message: parseHTTPMessage and the tests
\* on its start line
messageOf(data) ==
    IF startLineOf(data) = <<>> THEN <<>>
    ELSE IF ~looksLikeHTTPStartLine(startLineOf(data)) THEN <<>>
    ELSE <<[StartLine |-> startLineOf(data), Raw |-> data]>>

\* Parser.tryHTTPMessageFromUTF8Record: the message in a sequence, or <<>>
messageOfString(r) ==
    IF r.err # "none" \/ r.s = <<>> THEN <<>> ELSE messageOf(r.s)

tryHTTPMessageFromUTF8Record(f, h, offset) ==
    messageOfString(readUTF8StringRecord(f, h, offset))

\* findHTTPMessageStart: the least index of a method token or of "HTTP/"
findHTTPMessageStart(f, s, n) ==
    LET hits == {IndexFrom(f, s, n, 0, httpMethodPatterns[k]) : k \in 1..Len(httpMethodPatterns)}
                \cup {IndexFrom(f, s, n, 0, httpPrefix)}
    IN IF hits \ {-1} = {} THEN -1 ELSE SetMin(hits \ {-1})

\* the data of a raw record whose lengths were accepted
rawMessageData(f, h, at, dataLen) ==
    LET data == ReadAt(f, h, at, dataLen)
    IN IF at + dataLen > Size(f) THEN <<>>
       ELSE IF data.err # "none" \/ data.n < dataLen THEN <<>>
       ELSE messageOf(Bytes(f, at, at + dataLen))

\* the record in front of the message start at index start of the chunk
rawMessageAt(f, h, offset, start) ==
    IF start < 8 THEN <<>>
    ELSE IF Uint32Halves(f, offset + start - 8) # Add8(Uint32Halves(f, offset + start - 4)) THEN <<>>
    ELSE IF Uint32At(f, offset + start - 4) = 0 THEN <<>>
    ELSE IF Uint32At(f, offset + start - 4) > issueEvidenceMaxMessageSize THEN <<>>
    ELSE rawMessageData(f, h, offset + start, Uint32At(f, offset + start - 4))

\* Parser.tryHTTPMessageFromRawRecord: the message in a sequence, or <<>>
tryHTTPMessageFromRawRecord(f, h, offset) ==
    LET chunk == ReadAt(f, h, offset, issueEvidenceScanLen)
    IN IF offset <= 0 THEN <<>>
       ELSE IF chunk.err # "none" \/ chunk.n < 16 THEN <<>>
       ELSE rawMessageAt(f, h, offset, findHTTPMessageStart(f, chunk.start, chunk.n))

\* the pointers of the fields, without those outside (HeaderSize, size)
fieldPointers(f, offset, rec, readLen) ==
    LET ptrOf(i) == Int64Of(U64Bytes(f, offset + rec.Fields[i].Offset))
    IN SelectSeq([i \in 1..Len(rec.Fields) |->
                     IF rec.Fields[i].Offset + 8 > readLen THEN -1 ELSE ptrOf(i)],
                 LAMBDA ptr : ptr > HeaderSize /\ ptr < Size(f))

\* the read of the record up to its last field
typedRecordPointersIn(f, h, offset, rec, readLen) ==
    LET buf == ReadAt(f, h, offset, readLen)
    IN IF readLen <= 0 \/ readLen > issueEvidenceMaxTypedRecRead THEN <<>>
       ELSE IF buf.err # "none" \/ buf.n < readLen THEN <<>>
       ELSE fieldPointers(f, offset, rec, readLen)

\* Parser.readTypedRecordPointers
readTypedRecordPointers(f, h, offset, rec) ==
    IF Len(rec.Fields) = 0 THEN <<>>
    ELSE typedRecordPointersIn(f, h, offset, rec,
             SetMax({rec.Fields[i].Offset : i \in 1..Len(rec.Fields)} \cup {0}) + 8)

\* the pointers behind a list wrapper at the offset: ptrs[:count] of its
\* vector, or none
vectorPointers(count, vec) ==
    IF vec.err # "none" THEN <<>>
    ELSE IF count < Len(vec.ptrs) THEN SubSeq(vec.ptrs, 1, count)
    ELSE vec.ptrs

listPointers(f, h, list) ==
    IF list.err # "none" \/ list.count = 0 THEN <<>>
    ELSE vectorPointers(list.count, readPointerVector(f, h, list.vecPtr))

\* the pointers behind a typed record at the offset, or none
typedPointers(f, h, offset, rec) ==
    IF rec.err # "none" THEN <<>> ELSE readTypedRecordPointers(f, h, offset, rec)

\* the test on the visited map never finding the offset
alreadyVisitedNever(visited, offset) == FALSE

\* the test on the visited map
alreadyVisited(visited, offset) == offset \in visited

\* the offset is marked and its own messages are appended; trace keeps the
\* offsets in the order in which they were marked, with their depth
visit(f, h, offset, depth, st) ==
    [visited |-> st.visited \cup {offset},
     msgs |-> st.msgs \o tryHTTPMessageFromUTF8Record(f, h, offset)
                      \o tryHTTPMessageFromRawRecord(f, h, offset),
     trace |-> Append(st.trace, [offset |-> offset, depth |-> depth])]

\* Parser.collectHTTPMessages: the visited map, the messages collected so
\* far (own messages first, then those of the list pointers, then those of
\* the field pointers) and the trace
RECURSIVE collectHTTPMessages(_, _, _, _, _)
RECURSIVE collectEach(_, _, _, _, _, _)
collectEach(f, h, ptrs, i, depth, st) ==
    IF i > Len(ptrs) THEN st
    ELSE collectEach(f, h, ptrs, i + 1, depth, collectHTTPMessages(f, h, ptrs[i], depth, st))

collectHTTPMessages(f, h, offset, depth, st) ==
    IF offset <= 0 \/ depth > issueEvidenceMaxDepth THEN st
    ELSE IF alreadyVisited(st.visited, offset) THEN st
    ELSE collectEach(f, h, typedPointers(f, h, offset, readTypedRecordHeader(f, h, offset)), 1, depth + 1,
             collectEach(f, h, listPointers(f, h, readListWrapper(f, h, offset)), 1, depth + 1,
                 visit(f, h, offset, depth, st)))

\* the first message whose start line satisfies the test, or <<>>
firstMessage(msgs, Test(_)) ==
    LET hits == {i \in 1..Len(msgs) : Test(msgs[i].StartLine)}
    IN IF hits = {} THEN <<>> ELSE <<msgs[SetMin(hits)]>>

IsResponseLine(line) == HasPrefix(line, httpPrefix)
IsRequestLine(line) == ~HasPrefix(line, httpPrefix) /\ isHTTPMethodStart(line)

\* Parser.resolveRequestResponse, with the trace of the collection
resolveRequestResponse(f, h, entryPtr) ==
    LET st == collectHTTPMessages(f, h, entryPtr, 0, [visited |-> {}, msgs |-> <<>>, trace |-> <<>>])
    IN [reqMsg |-> firstMessage(st.msgs, IsRequestLine),
        respMsg |-> firstMessage(st.msgs, IsResponseLine),
        trace |-> st.trace]

\* Project files with a graph of records.  Node k lies at NodeAt(k) and is a
\* typed record with two pointer fields; in a file with a list the first
\* node is a list wrapper with a vector of two pointers instead.  The first
\* pointer of node k is the next node (the last node has back), the second
\* pointer of every node is cross (none, the first node or the string
\* record); the pointer n + 1 is the UTF-8 string record "GET /\r\n\r\n"
\* after the last node, 0 is no pointer.
NodeLen == 46
NodeAt(k) == HeaderSize + 8 + NodeLen * (k - 1)

NodePointer(k) == IF k = 0 THEN 0 ELSE NodeAt(k)

TypedNodeBytes(p1, p2) ==
    BE16(1) \o BE16(2) \o <<1>> \o BE16(10) \o <<2>> \o BE16(18) \o BE64(p1) \o BE64(p2) \o Zeros(NodeLen - 26)

ListNodeBytes(at, p1, p2) ==
    ListWrapperBytes(2, at + listWrapperLen) \o PointerVectorBytes(<<p1, p2>>)

MessageRecordBytes == BE32(17) \o BE32(9) \o <<71, 69, 84, 32, 47, 13, 10, 13, 10>>

GraphNodeBytes(g, k) ==
    IF g.list /\ k = 1
    THEN ListNodeBytes(NodeAt(k), NodePointer(IF k = g.n THEN g.back ELSE k + 1), NodePointer(g.cross))
    ELSE TypedNodeBytes(NodePointer(IF k = g.n THEN g.back ELSE k + 1), NodePointer(g.cross))

GraphFileBytes(g) ==
    Zeros(8) \o Flatten([k \in 1..g.n |-> GraphNodeBytes(g, k)]) \o MessageRecordBytes

Graphs ==
    {g \in [n : 1..MaxNodes, back : 0..(MaxNodes + 1), cross : 0..(MaxNodes + 1), list : BOOLEAN] :
        g.back <= g.n + 1 /\ g.cross \in {0, 1, g.n + 1}}

GraphFiles == {ProjectFile(GraphFileBytes(g)) : g \in Graphs}

\* Parser.resolveRequestResponse on the first node
RunResolveRequestResponse ==
    /\ reader
    /\ \E r \in {resolveRequestResponse(file, handle, NodeAt(1))} :
          issueOut' = [kind |-> "collect", filter |-> NilFilter, metas |-> r.reqMsg \o r.respMsg,
                       trace |-> r.trace]
    /\ UNCHANGED IssueVars
    /\ UNCHANGED StreamVars
    /\ UNCHANGED GhostVars

InitCollect ==
    /\ file \in GraphFiles
    /\ env = "ok"
    /\ InitRest

NextCollect ==
    \/ Open(FALSE)
    \/ RunResolveRequestResponse
    \/ \E t \in Threads : CloseLock(t)
    \/ \E t \in Threads : Close(t)

SpecCollect == InitCollect /\ [][NextCollect]_vars

\* C17: the collection started by resolveRequestResponse ends, has marked no
\* offset twice and has marked no offset at a depth above 6.
C17_CollectBounded ==
    issueOut.kind = "collect" =>
        /\ \A i, j \in 1..Len(issueOut.trace) :
               i # j => issueOut.trace[i].offset # issueOut.trace[j].offset
        /\ \A i \in 1..Len(issueOut.trace) : issueOut.trace[i].depth <= issueEvidenceMaxDepth

\* seven nodes were marked, the last at depth 6; its first pointer leads to
\* an eighth node that was not marked, and its second pointer leads back to
\* the first node: the graph has a cycle and a path longer than the limit
C17_Witness ==
    /\ issueOut.kind = "collect"
    /\ handle = "open"
    /\ Len(issueOut.trace) = issueEvidenceMaxDepth + 1
    /\ issueOut.trace[Len(issueOut.trace)].depth = issueEvidenceMaxDepth
    /\ LET last == issueOut.trace[Len(issueOut.trace)].offset
           ptrs == readTypedRecordPointers(file, "open", last,
                                           readTypedRecordHeader(file, "open", last))
       IN /\ Len(ptrs) = 2
          /\ \A i \in 1..Len(issueOut.trace) : issueOut.trace[i].offset # ptrs[1]
          /\ readTypedRecordHeader(file, "open", ptrs[1]).err = "none"
          /\ ptrs[2] = issueOut.trace[1].offset

(***************************************************************************)
(* Offsets within the depth limit of collectHTTPMessages.                  *)
(***************************************************************************)
\* Project files with a chain of typed records and a shortcut.  The first
\* pointer of node k is the next node, that of the last node is the string
\* record; the second pointer of the first node is the shortcut (none, a node
\* or the string record), the other nodes have no second pointer.
ShortcutNodeBytes(g, k) ==
    TypedNodeBytes(NodePointer(k + 1), NodePointer(IF k = 1 THEN g.shortcut ELSE 0))

ShortcutFileBytes(g) ==
    Zeros(8) \o Flatten([k \in 1..g.n |-> ShortcutNodeBytes(g, k)]) \o MessageRecordBytes

ShortcutGraphs ==
    {g \in [n : 1..MaxNodes, shortcut : 0..(MaxNodes + 1)] : g.shortcut <= g.n + 1}

ShortcutFiles == {ProjectFile(ShortcutFileBytes(g)) : g \in ShortcutGraphs}

InitShortcut ==
    /\ file \in ShortcutFiles
    /\ env = "ok"
    /\ InitRest

SpecShortcut == InitShortcut /\ [][NextCollect]_vars

SeqRange(s) == {s[i] : i \in 1..Len(s)}

\* the offsets collectHTTPMessages descends to from an offset: the pointers
\* of its list wrapper and of its typed record
childOffsets(f, offset) ==
    {o \in SeqRange(listPointers(f, "open", readListWrapper(f, "open", offset)))
            \cup SeqRange(typedPointers(f, "open", offset, readTypedRecordHeader(f, "open", offset))) :
        o > 0}

\* the offsets at most hops pointers away from the offsets of S
RECURSIVE reachableWithin(_, _, _)
reachableWithin(f, S, hops) ==
    IF hops = 0 THEN S
    ELSE reachableWithin(f, S \cup UNION {childOffsets(f, o) : o \in S}, hops - 1)

\* C28: the collection started at the first node has marked every offset
\* that a pointer path of at most 6 hops reaches from it.
C28_ReachableWithinLimitProcessed ==
    (issueOut.kind = "collect" /\ handle = "open") =>
        reachableWithin(file, {NodeAt(1)}, issueEvidenceMaxDepth)
            \subseteq {issueOut.trace[i].offset : i \in 1..Len(issueOut.trace)}

(***************************************************************************)
(* List wrappers and their pointer vectors in the evidence traversal.      *)
(***************************************************************************)
\* Project files with a list wrapper at NodeAt(1), its pointer vector of
\* capacity 2 right after it and the UTF-8 string record "GET /\r\n\r\n" at
\* NodeAt(2).  The count of the wrapper, the total_len of the vector and
\* the two pointers vary.
ListCapacity == 2

ListFileBytes(l) ==
    Zeros(8) \o ListWrapperBytes(l.count, NodeAt(1) + listWrapperLen)
             \o BE32(l.totalLen) \o BE32(ListCapacity) \o BE64(l.p1) \o BE64(l.p2)
             \o MessageRecordBytes

Lists ==
    [count : 0..MaxListCount,
     totalLen : {8 + 8 * ListCapacity, 8 + 8 * ListCapacity + 1, 8 * ListCapacity},
     p1 : {0, NodeAt(1), NodeAt(2)},
     p2 : {0, NodeAt(1), NodeAt(2)}]

ListFiles == {ProjectFile(ListFileBytes(l)) : l \in Lists}

InitLists ==
    /\ file \in ListFiles
    /\ env = "ok"
    /\ InitRest

SpecLists == InitLists /\ [][NextCollect]_vars

\* C21: when the collection started at a list wrapper has gone on to the
\* string record through the pointer vector (the record is marked at depth
\* 1), the count of the wrapper is at most the capacity of the vector and
\* the total_len of the vector is 8 + 8 * capacity.
C21_CountWithinCapacity ==
    (issueOut.kind = "collect" /\ \E i \in 1..Len(issueOut.trace) : issueOut.trace[i] = [offset |-> NodeAt(2), depth |-> 1]) =>
        LET list == readListWrapper(file, "open", NodeAt(1))
        IN /\ list.err = "none"
           /\ list.count <= Uint32At(file, list.vecPtr + 4)
           /\ Uint32At(file, list.vecPtr) = 8 + 8 * Uint32At(file, list.vecPtr + 4)

(***************************************************************************)
(* UTF-16 string records (Parser.readUTF16BEStringRecord).                 *)
(***************************************************************************)
\* Project files with one UTF-16 string record at UTF16RecordAt, in the
\* first or the second layout, behind two bytes that vary.  The record has
\* up to MaxChars characters; its total length is right or one too large;
\* the file ends after the record or one byte before its end.
UTF16RecordAt == HeaderSize + 8

UTF16Chars == {<<>>, <<97>>, <<97, 98>>}

UTF16Records ==
    [layout : {1, 2}, chars : {c \in UTF16Chars : Len(c) <= MaxChars},
     before : {<<0, 0>>, <<0, 2>>, <<88, 88>>},
     extra : {0, 1}, cut : {0, 1}]

UTF16RecordBytes(u) ==
    (IF u.layout = 1 THEN stringHeaderPrefix ELSE BE32(2) \o stringV2Descriptor)
        \o Zeros(8) \o BE64(8 + 2 * Len(u.chars) + u.extra) \o BE32(Len(u.chars))
        \o Flatten([i \in 1..Len(u.chars) |-> BE16(u.chars[i])])

UTF16FileBytes(u) ==
    LET bytes == Zeros(6) \o u.before \o UTF16RecordBytes(u)
    IN SubSeq(bytes, 1, Len(bytes) - u.cut)

UTF16Files == {ProjectFile(UTF16FileBytes(u)) : u \in UTF16Records}

\* the record of the file is whole and its total length is right
WellFormed(u) == u.extra = 0 /\ u.cut = 0

UTF16Pointers == {UTF16RecordAt + d : d \in {-4, -2, 0, 2, 4}}

\* Parser.readUTF16BEStringRecord(ptr) on the opened file
RunReadUTF16BEStringRecord(ptr) ==
    /\ reader
    /\ handle = "open"
    /\ issueOut' = [kind |-> "utf16", filter |-> NilFilter, metas |-> <<>>, ptr |-> ptr,
                    read |-> readUTF16BEStringRecord(file, handle, ptr)]
    /\ UNCHANGED IssueVars
    /\ UNCHANGED StreamVars
    /\ UNCHANGED GhostVars

InitUTF16 ==
    /\ file \in UTF16Files
    /\ env = "ok"
    /\ InitRest

NextUTF16 ==
    \/ Open(FALSE)
    \/ \E ptr \in UTF16Pointers : RunReadUTF16BEStringRecord(ptr)

SpecUTF16 == InitUTF16 /\ [][NextUTF16]_vars

\* the six attempts in their order: the start and the layout of each
UTF16Attempts(ptr) ==
    <<[start |-> ptr, layout |-> 1], [start |-> ptr, layout |-> 2],
      [start |-> ptr + 2, layout |-> 1], [start |-> ptr + 2, layout |-> 2],
      [start |-> ptr - 2, layout |-> 1], [start |-> ptr - 2, layout |-> 2]>>

UTF16Attempt(f, a) ==
    IF a.layout = 1 THEN tryReadUTF16BEStringRecordV1(f, "open", a.start)
    ELSE tryReadUTF16BEStringRecordV2(f, "open", a.start)

\* C22: readUTF16BEStringRecord returns the string of the first of the six
\* attempts that succeeds and an error when none does; a well-formed record
\* at the pointer, two bytes after it or two bytes before it is returned as
\* its characters, the empty string when it has none.
C22_FirstSuccessfulAttempt ==
    issueOut.kind = "utf16" =>
        LET tries == UTF16Attempts(issueOut.ptr)
            ok == {i \in 1..6 : UTF16Attempt(file, tries[i]).ok}
        IN /\ issueOut.read.err # "none" <=> ok = {}
           /\ \A i \in ok : (\A j \in ok : i <= j) =>
                  issueOut.read.s = UTF16Attempt(file, tries[i]).s
           /\ \A u \in UTF16Records :
                  (/\ file = ProjectFile(UTF16FileBytes(u))
                   /\ WellFormed(u)
                   /\ issueOut.ptr - UTF16RecordAt \in {-2, 0, 2})
                  => issueOut.read = [err |-> "none", s |-> u.chars]

\* a well-formed record with two characters was addressed two bytes late
\* and was read at the fifth or the sixth attempt
C22_Witness ==
    /\ issueOut.kind = "utf16"
    /\ issueOut.ptr = UTF16RecordAt + 2
    /\ issueOut.read = [err |-> "none", s |-> <<97, 98>>]
    /\ \E u \in UTF16Records : file = ProjectFile(UTF16FileBytes(u)) /\ WellFormed(u)
    /\ \A i \in 1..4 : ~UTF16Attempt(file, UTF16Attempts(issueOut.ptr)[i]).ok

(***************************************************************************)
(* Host and path of an issue meta (Parser.readScannerIssueMetaAtOffset and *)
(* Parser.extractIssueEvidence).                                           *)
(***************************************************************************)
p4aOffset == 74               \* 0x4a
p73Offset == 115              \* 0x73

\* a string as a file of its own, for the operators that work on [a, b)
TextFile(data) == [head |-> data, fill |-> 0, body |-> <<>>]

\* entry.Path, with "?" and entry.QueryString when there is one
pathWithQuery(rl) ==
    IF rl.QueryString # <<>> THEN rl.Path \o <<63>> \o rl.QueryString ELSE rl.Path

\* parseRequestLine on the start line and extractHostFromHeaders on the
\* headers of the message data
hostAndPathOf(data, line) ==
    [Host |-> extractHostFromHeaders(TextFile(data), 0, messageSplit(data).headerEnd).Host,
     Path |-> pathWithQuery(parseRequestLine(TextFile(line), 0, Len(line)))]

NoHostPath == [Host |-> <<>>, Path |-> <<>>]

\* extractHostAndPathFromMessage on the request message, if any
extractHostAndPathFromMessage(reqMsg) ==
    IF reqMsg = <<>> THEN NoHostPath
    ELSE IF reqMsg[1].StartLine = <<>> THEN NoHostPath
    ELSE IF ~isHTTPMethodStart(reqMsg[1].StartLine) THEN NoHostPath
    ELSE hostAndPathOf(reqMsg[1].Raw, reqMsg[1].StartLine)

\* Parser.resolveEvidenceEntryPointers
resolveEvidenceEntryPointers(f, h, evidencePtr) ==
    SelectSeq(listPointers(f, h, readListWrapper(f, h, evidencePtr)),
              LAMBDA ptr : ptr > HeaderSize /\ ptr < Size(f))

\* host and path keep their value unless it is empty
fillEmpty(acc, hp) ==
    [acc EXCEPT !.Host = IF acc.Host = <<>> THEN hp.Host ELSE acc.Host,
                !.Path = IF acc.Path = <<>> THEN hp.Path ELSE acc.Path]

\* one round of the loop of extractIssueEvidence
evidenceStep(acc, r) ==
    IF r.reqMsg = <<>> /\ r.respMsg = <<>> THEN acc
    ELSE IF acc.Host = <<>> \/ acc.Path = <<>>
    THEN fillEmpty([acc EXCEPT !.n = acc.n + 1], extractHostAndPathFromMessage(r.reqMsg))
    ELSE [acc EXCEPT !.n = acc.n + 1]

RECURSIVE evidenceLoop(_, _, _, _, _)
evidenceLoop(f, h, entryPtrs, i, acc) ==
    IF i > Len(entryPtrs) THEN acc
    ELSE evidenceLoop(f, h, entryPtrs, i + 1,
                      evidenceStep(acc, resolveRequestResponse(f, h, entryPtrs[i])))

evidenceOf(f, h, evidencePtr, entryPtrs) ==
    evidenceLoop(f, h, IF entryPtrs = <<>> THEN <<evidencePtr>> ELSE entryPtrs, 1,
                 [n |-> 0, Host |-> <<>>, Path |-> <<>>])

\* Parser.extractIssueEvidence: the number of evidence items, host and path
extractIssueEvidence(f, h, evidencePtr) ==
    IF evidencePtr <= 0 THEN [n |-> 0, Host |-> <<>>, Path |-> <<>>]
    ELSE evidenceOf(f, h, evidencePtr, resolveEvidenceEntryPointers(f, h, evidencePtr))

\* the least index of a method token in the chunk, or -1
firstMethodPos(f, s, n) ==
    LET hits == {IndexFrom(f, s, n, 0, httpMethodPatterns[k]) : k \in 1..Len(httpMethodPatterns)}
    IN IF hits \ {-1} = {} THEN -1 ELSE SetMin(hits \ {-1})

\* the request bytes behind the lengths in front of the method token
requestRecordData(f, h, at, dataLen) ==
    LET reqBytes == ReadAt(f, h, at, dataLen)
    IN IF reqBytes.err # "none" \/ reqBytes.n = 0 THEN <<>>
       ELSE Bytes(f, at, at + reqBytes.n)

hostAndPathOfData(data) ==
    IF data = <<>> THEN NoHostPath
    ELSE IF startLineOf(data) = <<>> THEN NoHostPath
    ELSE hostAndPathOf(data, startLineOf(data))

requestRecordAt(f, h, recordOffset, methodPos) ==
    IF methodPos < 8 THEN NoHostPath
    ELSE IF Uint32Halves(f, recordOffset + methodPos - 8)
                # Add8(Uint32Halves(f, recordOffset + methodPos - 4)) THEN NoHostPath
    ELSE IF Uint32At(f, recordOffset + methodPos - 4) = 0 THEN NoHostPath
    ELSE hostAndPathOfData(requestRecordData(f, h, recordOffset + methodPos,
                                             Uint32At(f, recordOffset + methodPos - 4)))

\* Parser.extractHostAndPathFromRequestRecord
extractHostAndPathFromRequestRecord(f, h, recordOffset) ==
    LET chunk == ReadAt(f, h, recordOffset, issueEvidenceScanLen)
    IN IF recordOffset <= 0 THEN NoHostPath
       ELSE IF chunk.err # "none" \/ chunk.n < 32 THEN NoHostPath
       ELSE requestRecordAt(f, h, recordOffset, firstMethodPos(f, chunk.start, chunk.n))

\* path = reqPath unless reqPath is empty
metaHostPath(path, hp) ==
    [Host |-> hp.Host, Path |-> IF hp.Path # <<>> THEN hp.Path ELSE path]

\* the fallback for a host or path that the evidence left empty
withFallback(f, h, reqRecPtr, ev) ==
    IF ev.Host = <<>> \/ ev.Path = <<>>
    THEN fillEmpty(ev, extractHostAndPathFromRequestRecord(f, h, reqRecPtr))
    ELSE ev

\* readScannerIssueMetaAtOffset, the host and the path of the meta of the
\* record at abs, with the number of its evidence items
issueHostPath(f, h, abs) ==
    metaHostPath(readUTF8StringRecord(f, h, Int64(U64Bytes(f, abs + p4aOffset))).s,
                 withFallback(f, h, Int64(U64Bytes(f, abs + p73Offset)),
                              extractIssueEvidence(f, h, Int64(U64Bytes(f, abs + p73Offset)))))

\* the metas of a scan with their Host and Path, which have no part in the
\* choice of the records that the scan emits
withHostPath(f, h, metas) ==
    [i \in 1..Len(metas) |->
        [RecordOffset |-> metas[i].RecordOffset, SerialNumber |-> metas[i].SerialNumber,
         Severity |-> metas[i].Severity, Confidence |-> metas[i].Confidence,
         hp |-> issueHostPath(f, h, metas[i].RecordOffset)]]

\* Project files with one issue record at the end of the header, the UTF-8
\* string record of its own path after it (when it has one) and its
\* evidence after that: a UTF-8 string record with a message, addressed
\* by the record itself or through a list wrapper with a pointer vector.
OwnPaths == {<<>>, <<47, 111>>}

EvidenceMessages ==
    {<<>>, <<71, 69, 84, 32, 47, 101, 32, 72, 84, 84, 80, 47, 49, 46, 49, 13, 10, 72, 111, 115, 116, 58, 32, 104, 13, 10, 13, 10>>, <<71, 69, 84, 32, 47, 101, 63, 113, 32, 72, 84, 84, 80, 47, 49, 46, 49, 13, 10, 13, 10>>,
     <<71, 69, 84, 13, 10, 13, 10>>, <<72, 84, 84, 80, 47, 49, 46, 49, 32, 50, 48, 48, 13, 10, 13, 10>>}

UTF8RecordBytes(s) == BE32(8 + Len(s)) \o BE32(Len(s)) \o s

OwnPathAt == HeaderSize + minIssueRecordLen
EvidenceAt == OwnPathAt + 16

EvidenceIssueRecord(pathPtr, reqRecPtr) ==
    [i \in 1..minIssueRecordLen |->
        IF i <= Len(scannerIssueEntrySignature) THEN scannerIssueEntrySignature[i]
        ELSE IF i = serialOffset + 8 THEN 1
        ELSE IF i = sevOffset + 1 THEN 3
        ELSE IF i = confOffset + 1 THEN 2
        ELSE IF i \in (p4aOffset + 1)..(p4aOffset + 8) THEN BE64(pathPtr)[i - p4aOffset]
        ELSE IF i \in (p73Offset + 1)..(p73Offset + 8) THEN BE64(reqRecPtr)[i - p73Offset]
        ELSE 0]

EvidenceBytes(e) ==
    IF e.msg = <<>> THEN <<>>
    ELSE IF e.list
    THEN ListWrapperBytes(e.count, EvidenceAt + listWrapperLen)
             \o PointerVectorBytes(<<EvidenceAt + NodeLen, EvidenceAt + NodeLen>>)
             \o UTF8RecordBytes(e.msg)
    ELSE UTF8RecordBytes(e.msg)

EvidenceFileBytes(e) ==
    EvidenceIssueRecord(IF e.own = <<>> THEN 0 ELSE OwnPathAt,
                        IF e.msg = <<>> THEN 0 ELSE EvidenceAt)
        \o UTF8RecordBytes(e.own) \o Zeros(8 - Len(e.own))
        \o EvidenceBytes(e)

Evidences ==
    [own : OwnPaths, msg : EvidenceMessages, list : BOOLEAN, count : 1..MaxEvidenceCount]

EvidenceFiles == {ProjectFile(EvidenceFileBytes(e)) : e \in Evidences}

\* Parser.ScanScannerIssueMetasRaw(filterSerialNumbers), the metas with
\* their Host and Path
RunScanIssueHostPaths(filter) ==
    /\ reader
    /\ issueOut' = [kind |-> "hostpath", filter |-> filter,
                    metas |-> withHostPath(file, handle,
                                           ScanScannerIssueMetasRaw(file, handle, filter))]
    /\ UNCHANGED IssueVars
    /\ UNCHANGED StreamVars
    /\ UNCHANGED GhostVars

InitEvidence ==
    /\ file \in EvidenceFiles
    /\ env = "ok"
    /\ InitRest

NextEvidence ==
    \/ Open(FALSE)
    \/ \E filter \in Filters : RunScanIssueHostPaths(filter)
    \/ \E t \in Threads : CloseLock(t)
    \/ \E t \in Threads : Close(t)

SpecEvidence == InitEvidence /\ [][NextEvidence]_vars

\* the path that the record of an emitted meta holds behind its own path
\* pointer
OwnPathOf(f, abs) == readUTF8StringRecord(f, "open", Int64(U64Bytes(f, abs + p4aOffset))).s

\* C23: an emitted issue meta whose record has a non-empty path of its own
\* has that path.
C23_OwnPathKept ==
    (issueOut.kind = "hostpath" /\ handle = "open") =>
        \A i \in 1..Len(issueOut.metas) :
            OwnPathOf(file, issueOut.metas[i].RecordOffset) # <<>> =>
                issueOut.metas[i].hp.Path = OwnPathOf(file, issueOut.metas[i].RecordOffset)

(***************************************************************************)
(* Reader.FindPattern and Reader.FindAllPatterns.                          *)
(***************************************************************************)
\* the length of the buffer: bufSize + len(pattern) - 1, with FindBufSize
\* for the 64 KiB of bufSize
findBufferLenNoTail(pattern) == FindBufSize

findBufferLen(pattern) == FindBufSize + Len(pattern) - 1

\* the indexes i of one window at which matchPattern holds; n is the number
\* of bytes that file.ReadAt gave
windowMatches(f, offset, n, pattern) ==
    {i \in 0..(n - Len(pattern)) : MatchAt(f, offset, n, i, pattern)}

firstInWindow(f, offset, pattern) ==
    windowMatches(f, offset, Min(findBufferLen(pattern), Size(f) - offset), pattern)

\* the loop of FindPattern
RECURSIVE findPatternLoop(_, _, _)
findPatternLoop(f, pattern, offset) ==
    IF offset >= Size(f) THEN -1
    ELSE IF firstInWindow(f, offset, pattern) # {}
    THEN offset + SetMin(firstInWindow(f, offset, pattern))
    ELSE findPatternLoop(f, pattern, offset + FindBufSize)

\* Reader.FindPattern: file.ReadAt fails on a closed file and on a negative
\* offset
FindPattern(f, h, pattern, startOffset) ==
    IF Len(pattern) = 0 THEN [err |-> "empty pattern", v |-> -1]
    ELSE IF startOffset >= Size(f) THEN [err |-> "none", v |-> -1]
    ELSE IF h # "open" THEN [err |-> "ErrClosed", v |-> -1]
    ELSE IF startOffset < 0 THEN [err |-> "negative offset", v |-> -1]
    ELSE [err |-> "none", v |-> findPatternLoop(f, pattern, startOffset)]

\* the elements of a set of numbers in ascending order
RECURSIVE AscendingSeq(_)
AscendingSeq(S) == IF S = {} THEN <<>> ELSE <<SetMin(S)>> \o AscendingSeq(S \ {SetMin(S)})

\* the inner loop of FindAllPatterns: the matches of the window in the
\* order of i, up to the limit
appendMatches(results, found, maxResults) ==
    IF maxResults > 0 /\ Len(results) + Len(found) > maxResults
    THEN results \o SubSeq(found, 1, maxResults - Len(results))
    ELSE results \o found

absoluteMatches(f, offset, pattern) ==
    AscendingSeq({offset + i : i \in firstInWindow(f, offset, pattern)})

\* the loop of FindAllPatterns
RECURSIVE findAllLoop(_, _, _, _, _)
findAllLoop(f, pattern, offset, maxResults, results) ==
    IF offset >= Size(f) THEN results
    ELSE IF maxResults > 0 /\ Len(results) >= maxResults THEN results
    ELSE findAllLoop(f, pattern, offset + FindBufSize, maxResults,
                     appendMatches(results, absoluteMatches(f, offset, pattern), maxResults))

\* Reader.FindAllPatterns
FindAllPatterns(f, h, pattern, startOffset, maxResults) ==
    IF Len(pattern) = 0 THEN [err |-> "empty pattern", v |-> <<>>]
    ELSE IF startOffset >= Size(f) THEN [err |-> "none", v |-> <<>>]
    ELSE IF h # "open" THEN [err |-> "ErrClosed", v |-> <<>>]
    ELSE IF startOffset < 0 THEN [err |-> "negative offset", v |-> <<>>]
    ELSE [err |-> "none", v |-> findAllLoop(f, pattern, startOffset, maxResults, <<>>)]

\* Project files with up to MaxFindBody bytes "a" or "b" after the header,
\* patterns of one to three bytes, one of them reaching into the header, and
\* start offsets around the end of the header, so that the ends of the
\* windows fall on every place of the bytes after the header.
FindFiles == {ProjectFile(body) : body \in SeqsUpTo({97, 98}, MaxFindBody)}

FindPatterns == {<<97>>, <<97, 97>>, <<97, 98>>, <<98, 97, 98>>, <<0, 97>>}

FindStarts == (HeaderSize - FindBufSize)..(HeaderSize + MaxFindBody)

FindLimits == {-1, 0, 1, 2}

RunFindPattern(pattern, startOffset) ==
    /\ reader
    /\ issueOut' = [kind |-> "find", filter |-> NilFilter, metas |-> <<>>,
                    pattern |-> pattern, start |-> startOffset,
                    found |-> FindPattern(file, handle, pattern, startOffset)]
    /\ UNCHANGED IssueVars
    /\ UNCHANGED StreamVars
    /\ UNCHANGED GhostVars

RunFindAllPatterns(pattern, startOffset, maxResults) ==
    /\ reader
    /\ issueOut' = [kind |-> "findall", filter |-> NilFilter, metas |-> <<>>,
                    pattern |-> pattern, start |-> startOffset, maxResults |-> maxResults,
                    found |-> FindAllPatterns(file, handle, pattern, startOffset, maxResults)]
    /\ UNCHANGED IssueVars
    /\ UNCHANGED StreamVars
    /\ UNCHANGED GhostVars

InitFind ==
    /\ file \in FindFiles
    /\ env = "ok"
    /\ InitRest

NextFind ==
    \/ Open(FALSE)
    \/ \E pattern \in FindPatterns : \E startOffset \in FindStarts :
           RunFindPattern(pattern, startOffset)
    \/ \E pattern \in FindPatterns : \E startOffset \in FindStarts : \E maxResults \in FindLimits :
           RunFindAllPatterns(pattern, startOffset, maxResults)

SpecFind == InitFind /\ [][NextFind]_vars

\* the offsets at or after start at which the pattern lies in the file
Occurrences(f, pattern, start) ==
    {o \in start..(Size(f) - Len(pattern)) : Bytes(f, o, o + Len(pattern)) = pattern}

\* C25: FindPattern returns the least offset at or after start at which the
\* pattern lies, -1 when there is none; FindAllPatterns returns all of them
\* once in ascending order, the first maxResults of them when maxResults is
\* positive.
C25_FindsEveryOccurrence ==
    /\ issueOut.kind = "find" =>
           LET occ == Occurrences(file, issueOut.pattern, issueOut.start)
           IN issueOut.found = [err |-> "none", v |-> IF occ = {} THEN -1 ELSE SetMin(occ)]
    /\ issueOut.kind = "findall" =>
           LET all == AscendingSeq(Occurrences(file, issueOut.pattern, issueOut.start))
               k == IF issueOut.maxResults > 0 THEN Min(issueOut.maxResults, Len(all)) ELSE Len(all)
           IN issueOut.found = [err |-> "none", v |-> SubSeq(all, 1, k)]

\* the first of two results lies across the end of the first window, and a
\* third occurrence was cut off by maxResults
C25_Witness ==
    /\ issueOut.kind = "findall"
    /\ issueOut.maxResults = 2
    /\ Len(issueOut.found.v) = 2
    /\ Cardinality(Occurrences(file, issueOut.pattern, issueOut.start)) > 2
    /\ issueOut.found.v[1] < issueOut.start + FindBufSize
    /\ issueOut.found.v[1] + Len(issueOut.pattern) > issueOut.start + FindBufSize

(***************************************************************************)
(* The pipeline of runSearch: the goroutine of StreamHTTPHistory, the      *)
(* goroutine of SearchStream and the loop of runSearch on resultChan.      *)
(* The state of the second and the third is kept in issueOut:              *)
(*   qpc        where the goroutine of SearchStream is,                    *)
(*   pending    the result it is about to send,                            *)
(*   count      the results it has sent,                                   *)
(*   resultChan the buffered results not yet received,                     *)
(*   cpc        where runSearch is, metas the results it has received.     *)
(* The context is context.Background(): no receive from ctx.Done() ever    *)
(* happens.  opts.Regex is false.                                          *)
(***************************************************************************)
\* Project files with up to MaxPipelineEntries requests "GET /x\r\n\r\n"
\* or "GET /b\r\n\r\n"
PipelineChunks ==
    {Framing \o <<71, 69, 84, 32, 47, 120, 13, 10, 13, 10>>,
     Framing \o <<71, 69, 84, 32, 47, 98, 13, 10, 13, 10>>}

PipelineFiles == {ProjectFile(Flatten(cs)) : cs \in SeqsUpTo(PipelineChunks, MaxPipelineEntries)}

\* the query "x", with and without a limit
PipelineOptions ==
    [Query : {<<120>>}, CaseSensitive : {TRUE}, Scope : {"all"}, MaxResults : 0..MaxResultsBound]

PipelineVars == <<file, env, handle, reader, openErr, cache, recordCount, mu, pc, hitCache>>
ProducerVars == <<spc, slocs, si, sentry, ctxDone, ctxAtStart, errChan, chanClosed,
                  sent, errsSent, observed>>

\* runSearch: reader.StreamHTTPHistory(ctx)
PipelineStream ==
    /\ issueOut.kind = "none"
    /\ spc = "none"
    /\ StreamHTTPHistory(FALSE)

\* runSearch: burp.SearchStream(ctx, entryChan, opts), which makes the two
\* channels and starts the goroutine; runSearch goes on to range over
\* resultChan
SearchStreamStart(opts) ==
    /\ issueOut.kind = "none"
    /\ spc # "none"
    /\ issueOut' = [kind |-> "pipeline", filter |-> NilFilter, metas |-> <<>>, opts |-> opts,
                    qpc |-> "recv", pending |-> <<>>, count |-> 0, resultChan |-> <<>>,
                    cpc |-> "results"]
    /\ UNCHANGED PipelineVars
    /\ UNCHANGED StreamVars
    /\ UNCHANGED GhostVars

\* the state after searchEntry on a received entry
afterEntry(out, entry, matches) ==
    IF Len(matches) > 0
    THEN [out EXCEPT !.qpc = "send",
                     !.pending = <<[Entry |-> entry.ID, Matches |-> matches, Score |-> Len(matches)]>>]
    ELSE out

\* for entry := range entryChan: an entry is received and searched
SearchReceive ==
    /\ issueOut.kind = "pipeline"
    /\ issueOut.qpc = "recv"
    /\ entryChan # <<>>
    /\ entryChan' = Tail(entryChan)
    /\ issueOut' = afterEntry(issueOut, Head(entryChan),
                       searchEntry(searchEntryOf(file, LocationOf(cache.locations, Head(entryChan).ID),
                                                 Head(entryChan)),
                                   issueOut.opts))
    /\ UNCHANGED PipelineVars
    /\ UNCHANGED ProducerVars
    /\ UNCHANGED GhostVars

\* for entry := range entryChan: the channel is closed and empty; return
\* and the two deferred closes
SearchInputClosed ==
    /\ issueOut.kind = "pipeline"
    /\ issueOut.qpc = "recv"
    /\ entryChan = <<>>
    /\ chanClosed
    /\ issueOut' = [issueOut EXCEPT !.qpc = "done"]
    /\ UNCHANGED PipelineVars
    /\ UNCHANGED StreamVars
    /\ UNCHANGED GhostVars

\* the state after resultChan <- result and count++
afterSend(out) ==
    [out EXCEPT !.resultChan = Append(out.resultChan, out.pending[1]),
                !.pending = <<>>,
                !.count = out.count + 1,
                !.qpc = IF out.opts.MaxResults > 0 /\ out.count + 1 >= out.opts.MaxResults
                        THEN "done" ELSE "recv"]

\* select, case resultChan <- result
SearchSendResult ==
    /\ issueOut.kind = "pipeline"
    /\ issueOut.qpc = "send"
    /\ Len(issueOut.resultChan) < ChanCap
    /\ issueOut' = afterSend(issueOut)
    /\ UNCHANGED PipelineVars
    /\ UNCHANGED StreamVars
    /\ UNCHANGED GhostVars

\* runSearch, for result := range resultChan: a result is received
ConsumeResult ==
    /\ issueOut.kind = "pipeline"
    /\ issueOut.cpc = "results"
    /\ issueOut.resultChan # <<>>
    /\ issueOut' = [issueOut EXCEPT !.metas = Append(issueOut.metas, Head(issueOut.resultChan)),
                                    !.resultChan = Tail(issueOut.resultChan)]
    /\ UNCHANGED PipelineVars
    /\ UNCHANGED StreamVars
    /\ UNCHANGED GhostVars

\* runSearch, for result := range resultChan: closed and empty
ConsumeResultsClosed ==
    /\ issueOut.kind = "pipeline"
    /\ issueOut.cpc = "results"
    /\ issueOut.resultChan = <<>>
    /\ issueOut.qpc = "done"
    /\ issueOut' = [issueOut EXCEPT !.cpc = "errChan"]
    /\ UNCHANGED PipelineVars
    /\ UNCHANGED StreamVars
    /\ UNCHANGED GhostVars

\* runSearch, err := <-errChan: a value of the channel of StreamHTTPHistory,
\* or nil from the closed channel; an error is returned
ConsumeErr ==
    /\ issueOut.kind = "pipeline"
    /\ issueOut.cpc = "errChan"
    /\ errChan # <<>> \/ chanClosed
    /\ errChan' = IF errChan # <<>> THEN Tail(errChan) ELSE errChan
    /\ issueOut' = [issueOut EXCEPT !.cpc = IF errChan # <<>> THEN "returned" ELSE "searchErrChan"]
    /\ UNCHANGED PipelineVars
    /\ UNCHANGED <<spc, slocs, si, sentry, ctxDone, ctxAtStart, entryChan, chanClosed,
                   sent, errsSent, observed>>
    /\ UNCHANGED GhostVars

\* runSearch, err := <-searchErrChan: nil from the closed channel (nothing
\* is sent on it without a regular expression and a cancellation); the
\* results are written and runSearch returns
ConsumeSearchErr ==
    /\ issueOut.kind = "pipeline"
    /\ issueOut.cpc = "searchErrChan"
    /\ issueOut.qpc = "done"
    /\ issueOut' = [issueOut EXCEPT !.cpc = "returned"]
    /\ UNCHANGED PipelineVars
    /\ UNCHANGED StreamVars
    /\ UNCHANGED GhostVars

InitPipeline ==
    /\ file \in PipelineFiles
    /\ env = "ok"
    /\ InitRest

NextPipeline ==
    \/ Open(FALSE)
    \/ PipelineStream
    \/ StreamScan
    \/ StreamParse
    \/ StreamSendEntry
    \/ StreamReturn
    \/ \E opts \in PipelineOptions : SearchStreamStart(opts)
    \/ SearchReceive
    \/ SearchInputClosed
    \/ SearchSendResult
    \/ ConsumeResult
    \/ ConsumeResultsClosed
    \/ ConsumeErr
    \/ ConsumeSearchErr

SpecPipeline == InitPipeline /\ [][NextPipeline]_vars

\* C26: the pipeline never comes to the state in which the goroutine of
\* SearchStream has returned and the goroutine of StreamHTTPHistory waits
\* to send an entry on the full entryChan, which nobody receives from any
\* more, while runSearch waits for errChan.
C26_NoSendBlockedForever ==
    ~(/\ issueOut.kind = "pipeline"
      /\ issueOut.qpc = "done"
      /\ spc = "send"
      /\ Len(entryChan) >= ChanCap)

(***************************************************************************)
(* The status filter of the history command.                               *)
(***************************************************************************)
\* strings.Split(s, sep) for a separator of one byte
RECURSIVE stringsSplit(_, _)
stringsSplit(s, sep) ==
    LET i == SeqIndexFrom(s, 0, sep)
    IN IF i = -1 THEN <<s>>
       ELSE <<SubSeq(s, 1, i)>> \o stringsSplit(SubSeq(s, i + 2, Len(s)), sep)

\* parseIntFromString on a string
parseIntOf(s) == IntOf(parseIntFromString(TextFile(s), 0, Len(s), Zero64))

\* the range of a part "min-max": kept when both numbers are positive
statusRange(rangeParts, acc) ==
    IF Len(rangeParts) # 2 THEN acc
    ELSE IF parseIntOf(TrimSpace(rangeParts[1])) > 0 /\ parseIntOf(TrimSpace(rangeParts[2])) > 0
         THEN [acc EXCEPT !.minCode = parseIntOf(TrimSpace(rangeParts[1])),
                          !.maxCode = parseIntOf(TrimSpace(rangeParts[2]))]
         ELSE acc

\* one trimmed part of the specification
statusPart(part, acc) ==
    IF ContainsSeq(part, <<45>>) THEN statusRange(stringsSplit(part, <<45>>), acc)
    ELSE IF parseIntOf(part) > 0 THEN [acc EXCEPT !.codes = Append(@, parseIntOf(part))]
    ELSE acc

RECURSIVE statusParts(_, _)
statusParts(parts, acc) ==
    IF parts = <<>> THEN acc
    ELSE statusParts(Tail(parts), statusPart(TrimSpace(Head(parts)), acc))

\* ParseStatusCodes: the codes, minCode and maxCode
ParseStatusCodes(s) ==
    statusParts(stringsSplit(s, <<44>>), [codes |-> <<>>, minCode |-> 0, maxCode |-> 0])

\* NewFilter, as far as the status code goes
NewFilter == [statusCodes |-> <<>>, statusCodeMin |-> 0, statusCodeMax |-> 0]

WithStatusCode(f, codes) == [f EXCEPT !.statusCodes = codes]

WithStatusCodeRange(f, min, max) == [f EXCEPT !.statusCodeMin = min, !.statusCodeMax = max]

\* buildFilter with the --status flag only: <<>> is the nil filter
statusFilterOf(parsed) ==
    <<IF parsed.minCode > 0 \/ parsed.maxCode > 0
      THEN WithStatusCodeRange(IF Len(parsed.codes) > 0 THEN WithStatusCode(NewFilter, parsed.codes)
                               ELSE NewFilter,
                               parsed.minCode, parsed.maxCode)
      ELSE IF Len(parsed.codes) > 0 THEN WithStatusCode(NewFilter, parsed.codes)
      ELSE NewFilter>>

buildFilter(statusFilter) ==
    IF statusFilter = <<>> THEN <<>> ELSE statusFilterOf(ParseStatusCodes(statusFilter))

\* Filter.Match: the test of the listed codes, then the test of the range
Match(f, entry) ==
    IF Len(f.statusCodes) > 0 /\ ~\E i \in 1..Len(f.statusCodes) : entry.StatusCode = f.statusCodes[i]
    THEN FALSE
    ELSE IF f.statusCodeMin > 0 /\ entry.StatusCode < f.statusCodeMin THEN FALSE
    ELSE IF f.statusCodeMax > 0 /\ entry.StatusCode > f.statusCodeMax THEN FALSE
    ELSE TRUE

\* FilterHTTPHistory, and the test on the nil filter of runHistory
FilterHTTPHistory(entries, filter) ==
    IF filter = <<>> THEN entries
    ELSE SelectSeq(entries, LAMBDA entry : Match(filter[1], entry))

\* Parts of a status specification: "200", "500", "350", " 404" and the
\* range "301-399", each with the codes it lists.
StatusParts ==
    { [text |-> <<50, 48, 48>>, lo |-> 200, hi |-> 200, range |-> FALSE],
      [text |-> <<53, 48, 48>>, lo |-> 500, hi |-> 500, range |-> FALSE],
      [text |-> <<51, 53, 48>>, lo |-> 350, hi |-> 350, range |-> FALSE],
      [text |-> <<32, 52, 48, 52>>, lo |-> 404, hi |-> 404, range |-> FALSE],
      [text |-> <<51, 48, 49, 45, 51, 57, 57>>, lo |-> 301, hi |-> 399, range |-> TRUE] }

StatusSpecs == SeqsUpTo(StatusParts, MaxStatusParts)

StatusCodes == {0, 200, 300, 301, 350, 399, 400, 404, 500}

RECURSIVE JoinParts(_)
JoinParts(parts) ==
    IF parts = <<>> THEN <<>>
    ELSE IF Len(parts) = 1 THEN parts[1].text
    ELSE parts[1].text \o <<44>> \o JoinParts(Tail(parts))

\* the history command with --status on a history of one entry
RunHistoryFilter(parts, code) ==
    /\ reader
    /\ issueOut.kind = "none"
    /\ issueOut' = [kind |-> "status", filter |-> NilFilter, parts |-> parts, code |-> code,
                    metas |-> FilterHTTPHistory(<<[emptyEntry(HeaderSize) EXCEPT !.StatusCode = code]>>,
                                                buildFilter(JoinParts(parts)))]
    /\ UNCHANGED IssueVars
    /\ UNCHANGED StreamVars
    /\ UNCHANGED GhostVars

InitStatus ==
    /\ file = ProjectFile(<<>>)
    /\ env = "ok"
    /\ InitRest

NextStatus ==
    \/ Open(FALSE)
    \/ \E parts \in StatusSpecs : \E code \in StatusCodes : RunHistoryFilter(parts, code)

SpecStatus == InitStatus /\ [][NextStatus]_vars

\* the specification lists single codes and one range
MixesCodesAndRange(parts) ==
    /\ \E i \in 1..Len(parts) : ~parts[i].range
    /\ Cardinality({i \in 1..Len(parts) : parts[i].range}) = 1

\* C29: with a status specification of single codes and one range, the
\* entry is kept exactly when its status code is one of the listed codes or
\* lies inside the range, bounds included.
C29_ListedCodeOrInRange ==
    (issueOut.kind = "status" /\ MixesCodesAndRange(issueOut.parts)) =>
        (issueOut.metas # <<>>
            <=> \E i \in 1..Len(issueOut.parts) :
                   issueOut.parts[i].lo <= issueOut.code /\ issueOut.code <= issueOut.parts[i].hi)

(***************************************************************************)
(* The goroutine of SearchStream, with the loop of searchText step by      *)
(* step.  The entries have a URL only (Request and Response are nil), the  *)
(* search is the plain-text one, and the consumer drains resultChan.       *)
(***************************************************************************)
\* the texts "", "a", "aa", "ab", "Aa" and the queries "", "a", "A", "aa"
StreamTexts == {<<>>, <<97>>, <<97, 97>>, <<97, 98>>, <<65, 97>>}

StreamQueries == {<<>>, <<97>>, <<65>>, <<97, 97>>}

StreamOptions == [Query : StreamQueries, CaseSensitive : BOOLEAN, MaxResults : 0..MaxResultsBound]

SearchStreamVars == <<file, env, handle, reader, openErr, cache, recordCount, mu, pc, hitCache>>

\* SearchStream(ctx, entryChan, opts): the two channels are made and the
\* goroutine is started
SearchStreamCall(opts) ==
    /\ issueOut.kind = "none"
    /\ issueOut' = [kind |-> "searchstream", filter |-> NilFilter, metas |-> <<>>, opts |-> opts,
                    input |-> <<>>, inputClosed |-> FALSE, produced |-> 0, cancelled |-> FALSE,
                    gpc |-> "range", text |-> <<>>, offset |-> 0, matches |-> 0, count |-> 0,
                    errs |-> <<>>, closed |-> FALSE]
    /\ UNCHANGED SearchStreamVars
    /\ UNCHANGED StreamVars
    /\ UNCHANGED GhostVars

\* the producer sends an entry on entryChan
ProducerSend(url) ==
    /\ issueOut.kind = "searchstream"
    /\ ~issueOut.inputClosed
    /\ issueOut.produced < MaxSearchEntries
    /\ Len(issueOut.input) < ChanCap
    /\ issueOut' = [issueOut EXCEPT !.input = Append(@, url), !.produced = @ + 1]
    /\ UNCHANGED SearchStreamVars
    /\ UNCHANGED StreamVars
    /\ UNCHANGED GhostVars

\* the producer closes entryChan
ProducerClose ==
    /\ issueOut.kind = "searchstream"
    /\ ~issueOut.inputClosed
    /\ issueOut' = [issueOut EXCEPT !.inputClosed = TRUE]
    /\ UNCHANGED SearchStreamVars
    /\ UNCHANGED StreamVars
    /\ UNCHANGED GhostVars

\* the caller cancels the context
ContextCancel ==
    /\ issueOut.kind = "searchstream"
    /\ ~issueOut.cancelled
    /\ issueOut' = [issueOut EXCEPT !.cancelled = TRUE]
    /\ UNCHANGED SearchStreamVars
    /\ UNCHANGED StreamVars
    /\ UNCHANGED GhostVars

\* errChan <- ctx.Err(); return, and the two deferred closes
cancelledReturn(out) ==
    [out EXCEPT !.errs = Append(@, "Canceled"), !.closed = TRUE, !.gpc = "done"]

\* for entry := range entryChan: an entry is received; the select on
\* ctx.Done() returns, its default goes on to searchEntry and searchText
SearchStreamRange ==
    /\ issueOut.kind = "searchstream"
    /\ issueOut.gpc = "range"
    /\ issueOut.input # <<>>
    /\ issueOut' = IF issueOut.cancelled
                   THEN cancelledReturn([issueOut EXCEPT !.input = Tail(@)])
                   ELSE [issueOut EXCEPT !.input = Tail(@), !.gpc = "searchText",
                                         !.text = Head(issueOut.input), !.offset = 0, !.matches = 0]
    /\ UNCHANGED SearchStreamVars
    /\ UNCHANGED StreamVars
    /\ UNCHANGED GhostVars

\* the range loop ends on the closed and drained entryChan: return, and the
\* two deferred closes
SearchStreamInputClosed ==
    /\ issueOut.kind = "searchstream"
    /\ issueOut.gpc = "range"
    /\ issueOut.input = <<>>
    /\ issueOut.inputClosed
    /\ issueOut' = [issueOut EXCEPT !.closed = TRUE, !.gpc = "done"]
    /\ UNCHANGED SearchStreamVars
    /\ UNCHANGED StreamVars
    /\ UNCHANGED GhostVars

\* one turn of the for loop of searchText: idx == -1 breaks and returns the
\* matches, any other idx appends a match and moves offset behind it
searchTextTurn(out, sText, sQuery) ==
    LET actualIdx == SeqIndexFrom(sText, out.offset, sQuery)
    IN IF actualIdx = -1
       THEN [out EXCEPT !.gpc = IF out.matches > 0 THEN "send" ELSE "range"]
       ELSE [out EXCEPT !.matches = Min(@ + 1, MaxMatches), !.offset = actualIdx + Len(sQuery)]

searchTextStep ==
    /\ issueOut.kind = "searchstream"
    /\ issueOut.gpc = "searchText"
    /\ issueOut' = IF issueOut.opts.CaseSensitive
                   THEN searchTextTurn(issueOut, issueOut.text, issueOut.opts.Query)
                   ELSE searchTextTurn(issueOut, ToLowerText(issueOut.text),
                                       ToLowerText(issueOut.opts.Query))
    /\ UNCHANGED SearchStreamVars
    /\ UNCHANGED StreamVars
    /\ UNCHANGED GhostVars

\* select, case resultChan <- result: count++ and the test of MaxResults
SearchStreamSend ==
    /\ issueOut.kind = "searchstream"
    /\ issueOut.gpc = "send"
    /\ issueOut' = IF issueOut.opts.MaxResults > 0 /\ issueOut.count + 1 >= issueOut.opts.MaxResults
                   THEN [issueOut EXCEPT !.metas = Append(@, issueOut.text), !.count = @ + 1,
                                         !.closed = TRUE, !.gpc = "done"]
                   ELSE [issueOut EXCEPT !.metas = Append(@, issueOut.text), !.count = @ + 1,
                                         !.gpc = "range"]
    /\ UNCHANGED SearchStreamVars
    /\ UNCHANGED StreamVars
    /\ UNCHANGED GhostVars

\* select, case <-ctx.Done()
SearchStreamSendCancelled ==
    /\ issueOut.kind = "searchstream"
    /\ issueOut.gpc = "send"
    /\ issueOut.cancelled
    /\ issueOut' = cancelledReturn(issueOut)
    /\ UNCHANGED SearchStreamVars
    /\ UNCHANGED StreamVars
    /\ UNCHANGED GhostVars

InitSearchStream ==
    /\ file = ProjectFile(<<>>)
    /\ env = "ok"
    /\ InitRest

SearchStreamGoroutine ==
    \/ SearchStreamRange
    \/ SearchStreamInputClosed
    \/ searchTextStep
    \/ SearchStreamSend
    \/ SearchStreamSendCancelled

NextSearchStream ==
    \/ \E opts \in StreamOptions : SearchStreamCall(opts)
    \/ \E url \in StreamTexts : ProducerSend(url)
    \/ ProducerClose
    \/ ContextCancel
    \/ SearchStreamRange
    \/ SearchStreamInputClosed
    \/ searchTextStep
    \/ SearchStreamSend
    \/ SearchStreamSendCancelled

\* the goroutine takes a step whenever it can; the producer and the caller
\* are free to send, close and cancel or not
SpecSearchStream ==
    InitSearchStream /\ [][NextSearchStream]_vars /\ WF_vars(SearchStreamGoroutine)

InputEnded ==
    issueOut.kind = "searchstream" /\ (issueOut.inputClosed \/ issueOut.cancelled)

ChannelsClosed ==
    issueOut.kind = "searchstream" /\ issueOut.closed

\* C30: once the input channel of SearchStream is closed or its context is
\* cancelled, both of its channels are eventually closed.
C30_SearchStreamTerminates == InputEnded ~> ChannelsClosed

(***************************************************************************)
(* Acceptance of request offsets by ScanHTTPRecords.                       *)
(***************************************************************************)
\* Project files with one request "GET /a\r\n\r\n" after the header, behind
\* a run of "X" bytes and one byte in front of the method token: a newline,
\* a NUL, a space or "X"; the request ends the file or is followed by one
\* more buffer of "X" bytes.
PrecedingBytes == {LF, NUL, 32, 88}

ScanFiles ==
    {ProjectFile([i \in 1..pad |-> 88] \o <<b>> \o <<71, 69, 84, 32, 47, 97, 13, 10, 13, 10>>
                   \o [i \in 1..tail |-> 88]) :
        pad \in 0..MaxScanPad, b \in PrecedingBytes, tail \in {0, ScanBufSize}}

InitScan ==
    /\ file \in ScanFiles
    /\ env = "ok"
    /\ InitRest

NextScan ==
    \/ Open(FALSE)
    \/ \E t \in Threads : HTTPHistoryCountLock(t)
    \/ \E t \in Threads : HTTPHistoryCount(t)

SpecScan == InitScan /\ [][NextScan]_vars

\* the offsets at which the windows of ScanHTTPRecords start
RECURSIVE WindowStarts(_, _)
WindowStarts(f, offset) ==
    LET n == Min(ScanBufSize, Size(f) - offset)
    IN IF offset >= Size(f) THEN {}
       ELSE {offset} \cup WindowStarts(f, IF n > ScanOverlap THEN offset + n - ScanOverlap
                                          ELSE offset + n)

\* C18: every request offset that ScanHTTPRecords accepted is the start of
\* a scan window or has a whitespace or NUL byte right in front of it.
C18_PrecededBySeparator ==
    \A i \in 1..Len(cache.locations) :
        LET o == cache.locations[i].RequestOffset
        IN \/ o \in WindowStarts(file, HeaderSize)
           \/ IsSpace(ByteAt(file, o - 1))
           \/ ByteAt(file, o - 1) = NUL

\* the offsets a scan of the whole file in one window accepts
SingleWindowOffsets(f) ==
    LET locations == LocateAll(f, "open",
                         deduplicateOffsets(ScanWindow(f, HeaderSize, Size(f) - HeaderSize, 1, <<>>)))
    IN {locations[i].RequestOffset : i \in 1..Len(locations)}

\* C19: the request offsets that ScanHTTPRecords accepted are those a scan of
\* the whole file in one window accepts, each of them once.
C19_WindowIndependent ==
    counts # {} =>
        /\ {cache.locations[i].RequestOffset : i \in 1..Len(cache.locations)}
               = SingleWindowOffsets(file)
        /\ \A i, j \in 1..Len(cache.locations) :
               i # j => cache.locations[i].RequestOffset # cache.locations[j].RequestOffset

(***************************************************************************)
(* Properties of the issue scans.                                          *)
(***************************************************************************)
\* offsets at which a complete index entry lies, and the pointer it holds
IndexEntryOffsets(f) ==
    {o \in HeaderSize..(Size(f) - minEntryRecordLen) :
        MatchAt(f, o, minEntryRecordLen, 0, scannerIssueIndexEntrySignature)}

IssuePtr(f, o) == Int64(U64Bytes(f, o + issueEntryPtrOffset))

\* offsets after the header at which an issue signature lies
SignatureOffsets(f) ==
    {o \in HeaderSize..(Size(f) - Len(scannerIssueEntrySignature)) :
        MatchAt(f, o, Len(scannerIssueEntrySignature), 0, scannerIssueEntrySignature)}

\* a complete issue record with valid severity and confidence bytes lies at o
ValidRecordAt(f, o) ==
    /\ o > 0
    /\ o + minIssueRecordLen <= Size(f)
    /\ MatchAt(f, o, minIssueRecordLen, 0, scannerIssueEntrySignature)
    /\ ByteAt(f, o + sevOffset) \in 1..4
    /\ ByteAt(f, o + confOffset) \in 1..3

Times(metas, serial) == Cardinality({i \in 1..Len(metas) : metas[i].SerialNumber = serial})

\* C9: in the result of one issue scan (indexed or raw) no two metas have
\* the same serial number.
C9_SerialsUnique ==
    issueOut.kind \in {"indexed", "raw"} =>
        \A i, j \in 1..Len(issueOut.metas) :
            issueOut.metas[i].SerialNumber = issueOut.metas[j].SerialNumber => i = j

\* two index entries point at the same valid record, which the indexed scan
\* emitted once
C9_Witness ==
    /\ issueOut.kind = "indexed"
    /\ \E o1, o2 \in IndexEntryOffsets(file) :
          /\ o1 # o2
          /\ IssuePtr(file, o1) = IssuePtr(file, o2)
          /\ ValidRecordAt(file, IssuePtr(file, o1))
          /\ \E i \in 1..Len(issueOut.metas) :
                issueOut.metas[i].RecordOffset = IssuePtr(file, o1)

\* C10 as claimed: the merged output holds, exactly once, the serial of
\* every valid issue record that an index entry points at or that its own
\* signature locates.
C10_UnionOfBothPaths ==
    issueOut.kind = "merged" =>
        \A o \in SignatureOffsets(file) \cup {IssuePtr(file, e) : e \in IndexEntryOffsets(file)} :
            ValidRecordAt(file, o) =>
                Times(issueOut.metas, U64Bytes(file, o + serialOffset)) = 1

\* C24: in one issue scan, every valid issue record that the scan comes to
\* (through its signature in the raw scan, through an index entry in the
\* indexed scan) and whose serial the filter admits has its serial in the
\* output, whatever rejected candidates the file holds.
C24_RejectedHasNoEffect ==
    issueOut.kind \in {"indexed", "raw"} =>
        \A o \in (IF issueOut.kind = "raw" THEN SignatureOffsets(file)
                   ELSE {IssuePtr(file, e) : e \in IndexEntryOffsets(file)}) :
            (/\ ValidRecordAt(file, o)
             /\ issueOut.filter.nil \/ U64Bytes(file, o + serialOffset) \in issueOut.filter.set)
            => Times(issueOut.metas, U64Bytes(file, o + serialOffset)) = 1

====
